---- MODULE Spec2Model ----
(***************************************************************************)
(* Model of @cloakui/grid: breakpoint resolution (removeRedundantBreak-     *)
(* points, fillMissingBreakpoints), the pattern grammar (stringToPattern,   *)
(* parseSpan, parseMultiRowPattern), column inference (inferColumnCount,    *)
(* getPatternObject.implicitColumns), the pattern cycle resolvers           *)
(* (getItemSpans, getPatternObject.getItemSpanValue) and                    *)
(* orderItemsForMasonryColumns.                                             *)
(*                                                                         *)
(* The library is a set of pure functions.  Each specification below draws  *)
(* the inputs of one component from bounded sets in its Init and applies    *)
(* the component's functions in its actions.                                *)
(***************************************************************************)
EXTENDS Integers, Sequences, FiniteSets, TLC

VARIABLES
    pc,             \* position of the caller in the specification at hand
    options,        \* BreakpointOptions<T> handed to the breakpoint helpers
    isSpanValue,    \* second argument of removeRedundantBreakpoints
    fallback,       \* second argument of fillMissingBreakpoints
    pruned,         \* removeRedundantBreakpoints(options, isSpanValue)
    repruned,       \* removeRedundantBreakpoints(pruned, isSpanValue)
    filled,         \* fillMissingBreakpoints(options, fallback)
    items,          \* first argument of orderItemsForMasonryColumns
    columnCount,    \* second argument of orderItemsForMasonryColumns
    reordered,      \* the array orderItemsForMasonryColumns builds and returns
    loopI,          \* loop counter i of orderItemsForMasonryColumns
    text,           \* argument of stringToPattern
    userPattern,    \* stringToPattern(text)
    pattern,        \* the pattern option of a grid (one breakpoint)
    mirror,         \* the mirror option of a grid (one breakpoint)
    parsedPattern,  \* parseMultiRowPattern(pattern)
    inferredColumns,\* inferColumnCount(parsedPattern)
    patternObject,  \* getPatternObject(pattern, patternDirection, mirror, breakpoint)
    calledIndex,    \* the item index of the last getItemSpans / getItemSpanValue call
    itemSpans,      \* what the last getItemSpans call returned
    itemSpanValue,  \* what the last getItemSpanValue call returned
    masonryOptions, \* MasonryGridOptions handed to masonry(): columns and limit
    masonryGenerator, \* what the closure returned by masonry() captures: columns and limit
    styledIndex,    \* the index of the last getItemStyles call on the masonry generator
    itemStyles,     \* what that call returned: className and width
    synthOptions,   \* options of a grid with per-breakpoint patterns: pattern and mirror
    patternData,    \* per breakpoint: the parsed pattern and its column count
    synthIndex,     \* the item index handed to the item style synthesizer
    synthesized,    \* the synthesizer's result: colSpans, rowSpans, hidden, widthPercentages
    shorthandText,  \* a string handed to isShorthandExplicitSyntax / maybeResolveShorthandSyntax
    isShorthand,    \* isShorthandExplicitSyntax(shorthandText)
    expandedSpans,  \* maybeResolveShorthandSyntax(shorthandText) when it is shorthand
    gridOptions,    \* GridOptions handed to grid(): spanPattern, direction, mirror, filters, ...
    gridGenerator,  \* what the closure returned by grid() captures: pattern objects, columns
    gridIndex,      \* the index of the last getItemStyles call on the grid generator
    hookArgument,   \* the spans that call handed to filters.spanValues (if supplied)
    gridItemStyles, \* what that call returned: className and style
    gridCalls,      \* the number of getItemStyles calls made on the grid generator
    callStack,      \* the index arguments of the getItemSpans calls that have not returned
    returnValue     \* what the getItemSpans call that returned last returned

breakpointVars == <<options, isSpanValue, fallback, pruned, repruned, filled>>
masonryVars == <<items, columnCount, reordered, loopI>>

stringVars == <<text, userPattern>>

\* the variables a component leaves alone
patternVars == <<pattern, mirror, parsedPattern, inferredColumns, patternObject, calledIndex,
                 itemSpans, itemSpanValue>>

\* the variables a component leaves alone
masonryGridVars == <<masonryOptions, masonryGenerator, styledIndex, itemStyles>>
synthesizerVars == <<synthOptions, patternData, synthIndex, synthesized>>
shorthandVars == <<shorthandText, isShorthand, expandedSpans>>
gridVars == <<gridOptions, gridGenerator, gridIndex, hookArgument, gridItemStyles, gridCalls>>
recursionVars == <<callStack, returnValue>>
generatorVars == <<masonryGridVars, synthesizerVars, shorthandVars, gridVars, recursionVars>>

exceptBreakpoints == <<masonryVars, stringVars, patternVars, generatorVars>>
exceptMasonry == <<breakpointVars, stringVars, patternVars, generatorVars>>
exceptString == <<breakpointVars, masonryVars, patternVars, generatorVars>>
exceptPattern == <<breakpointVars, masonryVars, stringVars, generatorVars>>
exceptGenerator == <<breakpointVars, masonryVars, stringVars, patternVars>>
exceptMasonryGrid == <<exceptGenerator, synthesizerVars, shorthandVars, gridVars, recursionVars>>
exceptSynthesizer == <<exceptGenerator, masonryGridVars, shorthandVars, gridVars, recursionVars>>
exceptShorthand == <<exceptGenerator, masonryGridVars, synthesizerVars, gridVars, recursionVars>>
exceptPatternAndRecursion ==
    <<breakpointVars, masonryVars, stringVars, masonryGridVars, synthesizerVars, shorthandVars,
      gridVars>>
exceptGrid == <<exceptGenerator, masonryGridVars, synthesizerVars, shorthandVars, recursionVars>>

vars == <<pc, breakpointVars, masonryVars, stringVars, patternVars, generatorVars>>

(***************************************************************************)
(* Bounds of the model.                                                     *)
(***************************************************************************)
MaxValue == 2        \* breakpoint maps hold the numbers 1..MaxValue
MaxItems == 6        \* orderItemsForMasonryColumns gets 0..MaxItems items
MaxColumns == 4      \* and 1..MaxColumns columns
MaxTextLength == 4   \* stringToPattern gets strings of 0..MaxTextLength characters
MaxSpan == 2         \* implicit spans of a pattern are 1..MaxSpan
MaxPatternLength == 3 \* a flat pattern has 1..MaxPatternLength spans
MaxRows == 2         \* a nested pattern has 1..MaxRows rows
MaxRowLength == 2    \* of 1..MaxRowLength spans each
MaxIndex == 8        \* items 0..MaxIndex are styled
MaxLimit == 1        \* a breakpoint of a limit map holds -1..MaxLimit
MaxStyledIndex == 3  \* the masonry generator styles items 0..MaxStyledIndex
MaxShorthandLength == 5 \* shorthand candidates are strings of 0..MaxShorthandLength characters
MaxGridIndex == 4    \* the grid generator styles items 0..MaxGridIndex
MaxGridCalls == 2    \* in sequences of up to MaxGridCalls getItemStyles calls

(***************************************************************************)
(* JavaScript values.  Every value is a record with the same fields so that *)
(* any two values can be compared: t is the type tag, n the number, s the   *)
(* characters of a string and a the elements of an array.                   *)
(***************************************************************************)
Num(k) == [t |-> "number", n |-> k, s |-> <<>>, a |-> <<>>]
Str(chars) == [t |-> "string", n |-> 0, s |-> chars, a |-> <<>>]
Arr(elems) == [t |-> "array", n |-> 0, s |-> <<>>, a |-> elems]
Undefined == [t |-> "undefined", n |-> 0, s |-> <<>>, a |-> <<>>]
NaN == [t |-> "NaN", n |-> 0, s |-> <<>>, a |-> <<>>]
\* the outcome of a call that throws a TypeError
TypeError == [t |-> "TypeError", n |-> 0, s |-> <<>>, a |-> <<>>]
Null == [t |-> "null", n |-> 0, s |-> <<>>, a |-> <<>>]
Infinity == [t |-> "Infinity", n |-> 0, s |-> <<>>, a |-> <<>>]
NegativeInfinity == [t |-> "-Infinity", n |-> 0, s |-> <<>>, a |-> <<>>]

\* typeof v === "number"
isNumber(v) == v.t \in {"number", "NaN", "Infinity", "-Infinity"}

\* array[k] for a 0-based k: undefined outside the array
elementAt(array, k) == IF k >= 0 /\ k < Len(array) THEN array[k + 1] ELSE Undefined

\* value of a variable that the specification at hand does not use
Idle == "idle"

BreakpointsIdle ==
    /\ options = Idle
    /\ isSpanValue = Idle
    /\ fallback = Idle
    /\ pruned = Idle
    /\ repruned = Idle
    /\ filled = Idle

MasonryIdle ==
    /\ items = Idle
    /\ columnCount = Idle
    /\ reordered = Idle
    /\ loopI = Idle

StringIdle ==
    /\ text = Idle
    /\ userPattern = Idle

PatternIdle ==
    /\ pattern = Idle
    /\ mirror = Idle
    /\ parsedPattern = Idle
    /\ inferredColumns = Idle
    /\ patternObject = Idle
    /\ calledIndex = Idle
    /\ itemSpans = Idle
    /\ itemSpanValue = Idle

MasonryGridIdle ==
    /\ masonryOptions = Idle
    /\ masonryGenerator = Idle
    /\ styledIndex = Idle
    /\ itemStyles = Idle

SynthesizerIdle ==
    /\ synthOptions = Idle
    /\ patternData = Idle
    /\ synthIndex = Idle
    /\ synthesized = Idle

ShorthandIdle ==
    /\ shorthandText = Idle
    /\ isShorthand = Idle
    /\ expandedSpans = Idle

GridIdle ==
    /\ gridOptions = Idle
    /\ gridGenerator = Idle
    /\ gridIndex = Idle
    /\ hookArgument = Idle
    /\ gridItemStyles = Idle
    /\ gridCalls = Idle

RecursionIdle ==
    /\ callStack = Idle
    /\ returnValue = Idle

GeneratorIdle ==
    MasonryGridIdle /\ SynthesizerIdle /\ ShorthandIdle /\ GridIdle /\ RecursionIdle

\* every component but the named one is idle
IdleExcept(component) ==
    /\ IF component = "breakpoints" THEN TRUE ELSE BreakpointsIdle
    /\ IF component = "masonry" THEN TRUE ELSE MasonryIdle
    /\ IF component = "string" THEN TRUE ELSE StringIdle
    /\ IF component = "pattern" THEN TRUE ELSE PatternIdle
    /\ IF component = "masonryGrid" THEN TRUE ELSE MasonryGridIdle
    /\ IF component = "synthesizer" THEN TRUE ELSE SynthesizerIdle
    /\ IF component = "shorthand" THEN TRUE ELSE ShorthandIdle
    /\ IF component = "grid" THEN TRUE ELSE GridIdle
    /\ IF component = "recursion" THEN TRUE ELSE RecursionIdle

Inherit == Str(<<"i", "n", "h", "e", "r", "i", "t">>)
EmptyString == Str(<<>>)

(***************************************************************************)
(* JavaScript strings are sequences of characters; the string built-ins     *)
(* the library calls are modelled by what they do on those sequences.       *)
(***************************************************************************)
DigitChars == <<"0", "1", "2", "3", "4", "5", "6", "7", "8", "9">>

\* \d
IsDigit(c) == \E k \in 1..Len(DigitChars) : DigitChars[k] = c

DigitValue(c) == (CHOOSE k \in 1..Len(DigitChars) : DigitChars[k] = c) - 1

\* \s
IsWhiteSpace(c) == c \in {" ", "\t", "\n", "\r"}

\* String.prototype.includes for a one-character needle
includes(chars, c) == \E k \in 1..Len(chars) : chars[k] = c

\* String.prototype.startsWith for a one-character prefix
startsWith(chars, c) == Len(chars) > 0 /\ chars[1] = c

\* position of the first character of chars that satisfies Test, 0 if none
FirstWhere(chars, Test(_)) ==
    IF \E k \in 1..Len(chars) : Test(chars[k])
    THEN CHOOSE k \in 1..Len(chars) :
            Test(chars[k]) /\ \A j \in 1..(k - 1) : ~Test(chars[j])
    ELSE 0

\* String.prototype.split for a one-character separator
RECURSIVE split(_, _)
split(chars, sep) ==
    LET IsSep(c) == c = sep
        k == FirstWhere(chars, IsSep)
    IN  IF k = 0 THEN <<chars>>
        ELSE <<SubSeq(chars, 1, k - 1)>> \o split(SubSeq(chars, k + 1, Len(chars)), sep)

\* String.prototype.trim
RECURSIVE trim(_)
trim(chars) ==
    IF Len(chars) > 0 /\ IsWhiteSpace(chars[1]) THEN trim(Tail(chars))
    ELSE IF Len(chars) > 0 /\ IsWhiteSpace(chars[Len(chars)])
         THEN trim(SubSeq(chars, 1, Len(chars) - 1))
    ELSE chars

\* String.prototype.split(/\s+/): cut at every maximal run of white space
RECURSIVE splitWhiteSpace(_)
splitWhiteSpace(chars) ==
    LET NotWhiteSpace(c) == ~IsWhiteSpace(c)
        k == FirstWhere(chars, IsWhiteSpace)
        rest == SubSeq(chars, k + 1, Len(chars))
        m == FirstWhere(rest, NotWhiteSpace)
    IN  IF k = 0 THEN <<chars>>
        ELSE <<SubSeq(chars, 1, k - 1)>>
             \o splitWhiteSpace(IF m = 0 THEN <<>> ELSE SubSeq(rest, m, Len(rest)))

\* the number written by a sequence of digits, most significant first
RECURSIVE DecimalValue(_)
DecimalValue(digits) ==
    IF digits = <<>> THEN 0
    ELSE 10 * DecimalValue(SubSeq(digits, 1, Len(digits) - 1)) + DigitValue(digits[Len(digits)])

\* the longest prefix of chars made of digits
RECURSIVE DigitPrefix(_)
DigitPrefix(chars) ==
    IF Len(chars) > 0 /\ IsDigit(chars[1]) THEN <<chars[1]>> \o DigitPrefix(Tail(chars))
    ELSE <<>>

\* parseInt(string, 10): leading white space, an optional sign, then digits;
\* NaN when no digit follows
RECURSIVE parseInt(_)
parseInt(chars) ==
    IF Len(chars) > 0 /\ IsWhiteSpace(chars[1]) THEN parseInt(Tail(chars))
    ELSE LET signed == Len(chars) > 0 /\ chars[1] \in {"-", "+"}
             digits == DigitPrefix(IF signed THEN Tail(chars) ELSE chars)
         IN  IF digits = <<>> THEN NaN
             ELSE IF signed /\ chars[1] = "-" THEN Num(0 - DecimalValue(digits))
             ELSE Num(DecimalValue(digits))

\* the decimal digits of a natural number, most significant first
RECURSIVE NatToString(_)
NatToString(k) ==
    IF k < 10 THEN <<DigitChars[k + 1]>>
    ELSE NatToString(k \div 10) \o <<DigitChars[(k % 10) + 1]>>

\* `${value}` for a number or a string
toString(v) ==
    IF v.t = "string" THEN v.s
    ELSE IF v.t = "NaN" THEN <<"N", "a", "N">>
    ELSE IF v.t = "undefined" THEN <<"u", "n", "d", "e", "f", "i", "n", "e", "d">>
    ELSE IF v.t = "null" THEN <<"n", "u", "l", "l">>
    ELSE IF v.n < 0 THEN <<"-">> \o NatToString(0 - v.n)
    ELSE NatToString(v.n)

\* Number(string): the trimmed string is empty (0), an optionally signed run
\* of digits, or not a number
Number(chars) ==
    LET trimmed == trim(chars)
        signed == Len(trimmed) > 0 /\ trimmed[1] \in {"-", "+"}
        digits == IF signed THEN Tail(trimmed) ELSE trimmed
    IN  IF trimmed = <<>> THEN Num(0)
        ELSE IF digits = <<>> \/ \E k \in 1..Len(digits) : ~IsDigit(digits[k]) THEN NaN
        ELSE IF signed /\ trimmed[1] = "-" THEN Num(0 - DecimalValue(digits))
        ELSE Num(DecimalValue(digits))

\* the number an operand of an arithmetic operator is converted to
toNumber(v) ==
    IF v.t = "number" \/ v.t = "NaN" \/ v.t = "Infinity" THEN v
    ELSE IF v.t = "null" THEN Num(0)
    ELSE IF v.t = "string" THEN Number(v.s)
    ELSE NaN

\* a + b on numbers (the operands the library adds are never strings)
plus(x, y) ==
    LET l == toNumber(x)
        r == toNumber(y)
    IN  IF l.t = "number" /\ r.t = "number" THEN Num(l.n + r.n) ELSE NaN

\* a - b
minus(x, y) ==
    LET l == toNumber(x)
        r == toNumber(y)
    IN  IF l.t = "number" /\ r.t = "number" THEN Num(l.n - r.n) ELSE NaN

\* Math.max(a, b); Infinity only ever stands for the initial value of a minimum
mathMax(x, y) ==
    LET l == toNumber(x)
        r == toNumber(y)
    IN  IF l.t = "number" /\ r.t = "number" THEN (IF l.n >= r.n THEN l ELSE r) ELSE NaN

\* Math.min(a, b), a possibly Infinity
mathMin(x, y) ==
    LET l == toNumber(x)
        r == toNumber(y)
    IN  IF l.t = "Infinity" /\ r.t = "number" THEN r
        ELSE IF l.t = "number" /\ r.t = "number" THEN (IF l.n <= r.n THEN l ELSE r)
        ELSE NaN

(***************************************************************************)
(* Breakpoint resolution.                                                   *)
(***************************************************************************)
breakpoints == <<"mobile", "tablet", "tabletWide", "laptop", "desktop", "desktopWide">>

BreakpointNames == {breakpoints[i] : i \in 1..Len(breakpoints)}

\* breakpoints.indexOf(bp), 0-based
indexOf(bp) == (CHOOSE i \in 1..Len(breakpoints) : breakpoints[i] = bp) - 1

\* Object.keys(options).length; an absent key reads as undefined
providedBreakpoints(opts) == Cardinality({bp \in BreakpointNames : opts[bp] # Undefined})

\* the closest smaller breakpoint that has a value, from index i (0-based) downwards; -1 if none
RECURSIVE lookBackwards(_, _)
lookBackwards(opts, i) ==
    IF i < 0 THEN -1
    ELSE IF opts[breakpoints[i + 1]] # Undefined /\ opts[breakpoints[i + 1]] # EmptyString THEN i
    ELSE lookBackwards(opts, i - 1)

\* the closest larger breakpoint that has a value, from index i (0-based) upwards; -1 if none
RECURSIVE lookForwards(_, _)
lookForwards(opts, i) ==
    IF i >= Len(breakpoints) THEN -1
    ELSE IF opts[breakpoints[i + 1]] # Undefined /\ opts[breakpoints[i + 1]] # EmptyString THEN i
    ELSE lookForwards(opts, i + 1)

\* a plausible slip: with no smaller value, take the closest larger one before the fallback
fillMissingBreakpointsClosest(opts, fb) ==
    [bp \in BreakpointNames |->
        IF opts[bp] # Undefined /\ opts[bp] # EmptyString THEN opts[bp]
        ELSE LET i == lookBackwards(opts, indexOf(bp) - 1)
                 k == lookForwards(opts, indexOf(bp) + 1)
             IN  IF i >= 0 THEN opts[breakpoints[i + 1]]
                 ELSE IF k >= 0 THEN opts[breakpoints[k + 1]] ELSE fb]

fillMissingBreakpoints(opts, fb) ==
    [bp \in BreakpointNames |->
        IF opts[bp] # Undefined /\ opts[bp] # EmptyString THEN opts[bp]
        ELSE LET i == lookBackwards(opts, indexOf(bp) - 1)
             IN  IF i >= 0 THEN opts[breakpoints[i + 1]] ELSE fb]

\* a plausible slip: "the smallest breakpoint" read as the smallest provided one
removeRedundantBreakpointsFirstProvided(opts, isSpan) ==
    IF providedBreakpoints(opts) = 1 THEN opts
    ELSE [bp \in BreakpointNames |->
            LET i == indexOf(bp)
                currentValue == opts[bp]
                prevValue == IF i > 0 THEN opts[breakpoints[i]] ELSE Undefined
                firstProvided == \A j \in 1..i : opts[breakpoints[j]] = Undefined
            IN  IF currentValue = Undefined \/ currentValue = Inherit \/ currentValue = EmptyString
                THEN Undefined
                ELSE IF isSpan /\ firstProvided /\ currentValue = Num(1) THEN Undefined
                ELSE IF prevValue # currentValue THEN currentValue
                ELSE Undefined]

\* a plausible slip: the value is compared with the first breakpoint's, not the previous one's
removeRedundantBreakpointsAgainstFirst(opts, isSpan) ==
    IF providedBreakpoints(opts) = 1 THEN opts
    ELSE [bp \in BreakpointNames |->
            LET i == indexOf(bp)
                currentValue == opts[bp]
                prevValue == IF i > 0 THEN opts[breakpoints[1]] ELSE Undefined
            IN  IF currentValue = Undefined \/ currentValue = Inherit \/ currentValue = EmptyString
                THEN Undefined
                ELSE IF isSpan /\ i = 0 /\ currentValue = Num(1) THEN Undefined
                ELSE IF prevValue # currentValue THEN currentValue
                ELSE Undefined]

\* The reduce writes acc[bp] only, from options[bp] and options[breakpoints[i - 1]],
\* so the accumulated object is the map below.
removeRedundantBreakpoints(opts, isSpan) ==
    IF providedBreakpoints(opts) = 1 THEN opts
    ELSE [bp \in BreakpointNames |->
            LET i == indexOf(bp)
                currentValue == opts[bp]
                prevValue == IF i > 0 THEN opts[breakpoints[i]] ELSE Undefined
            IN  IF currentValue = Undefined \/ currentValue = Inherit \/ currentValue = EmptyString
                THEN Undefined
                ELSE IF isSpan /\ i = 0 /\ currentValue = Num(1) THEN Undefined
                ELSE IF prevValue # currentValue THEN currentValue
                ELSE Undefined]

\* the values a breakpoint of a map can hold in this model (Undefined: not set)
BreakpointValues == {Undefined, Inherit, EmptyString} \cup {Num(k) : k \in 1..MaxValue}

BreakpointMaps == [BreakpointNames -> BreakpointValues]

InitBreakpoints ==
    /\ pc = "options"
    /\ options \in BreakpointMaps
    /\ isSpanValue = Idle
    /\ fallback = Idle
    /\ pruned = Idle
    /\ repruned = Idle
    /\ filled = Idle
    /\ MasonryIdle
    /\ StringIdle
    /\ PatternIdle
    /\ GeneratorIdle

\* a caller prunes a map: removeRedundantBreakpoints(options, isSpanValue)
Prune ==
    /\ pc = "options"
    /\ \E isSpan \in BOOLEAN :
        /\ isSpanValue' = isSpan
        /\ pruned' = removeRedundantBreakpoints(options, isSpan)
    /\ pc' = "pruned"
    /\ UNCHANGED <<options, fallback, repruned, filled, exceptBreakpoints>>

\* the pruned map is pruned once more, with the same semantics
PruneAgain ==
    /\ pc = "pruned"
    /\ repruned' = removeRedundantBreakpoints(pruned, isSpanValue)
    /\ pc' = "repruned"
    /\ UNCHANGED <<options, isSpanValue, fallback, pruned, filled, exceptBreakpoints>>

\* a caller fills the gaps of a map: fillMissingBreakpoints(options, fallback)
Fill ==
    /\ pc = "options"
    /\ \E fb \in {Num(1), Num(MaxValue + 1)} :
        /\ fallback' = fb
        /\ filled' = fillMissingBreakpoints(options, fb)
    /\ pc' = "filled"
    /\ UNCHANGED <<options, isSpanValue, pruned, repruned, exceptBreakpoints>>

\* a caller fills the gaps of a pruned map: fillMissingBreakpoints(pruned, fallback)
FillPruned ==
    /\ pc = "pruned"
    /\ \E fb \in {Num(1), Num(MaxValue + 1)} :
        /\ fallback' = fb
        /\ filled' = fillMissingBreakpoints(pruned, fb)
    /\ pc' = "prunedFilled"
    /\ UNCHANGED <<options, isSpanValue, pruned, repruned, exceptBreakpoints>>

NextBreakpoints == Prune \/ PruneAgain \/ Fill \/ FillPruned

SpecBreakpoints == InitBreakpoints /\ [][NextBreakpoints]_vars

(***************************************************************************)
(* Claims about breakpoint resolution, checked under SpecBreakpoints.       *)
(***************************************************************************)

\* a breakpoint has a value: the test of fillMissingBreakpoints and of pruning
HasValue(v) == v # Undefined /\ v # EmptyString

\* the indexes (0-based) of the breakpoints not larger than bp that satisfy Keep
SmallerOrEqual(opts, i, Keep(_)) == {j \in 0..i : Keep(opts[breakpoints[j + 1]])}

Largest(S) == CHOOSE j \in S : \A k \in S : k <= j

IsProvided(v) == v # Undefined

\* C1: pruning is idempotent: pruning the pruned map, with the same span
\* semantics, gives the pruned map again.
C1_PruneIdempotent == pc = "repruned" => repruned = pruned

\* C1 witness: a map of several breakpoints from which the first pass dropped
\* something has been pruned twice.
C1_Witness ==
    /\ pc = "repruned"
    /\ providedBreakpoints(options) >= 3
    /\ providedBreakpoints(pruned) >= 2
    /\ pruned # options

\* C2: every breakpoint emitted by pruning differs from the value the
\* next-smaller breakpoint resolves to under inheritance, that is the value of
\* the nearest smaller breakpoint that is set in the map.
C2_OnlyNonRedundantEmitted ==
    pc = "pruned" =>
        \A bp \in BreakpointNames :
            LET S == SmallerOrEqual(options, indexOf(bp) - 1, IsProvided)
            IN  (pruned[bp] # Undefined /\ S # {}) =>
                    pruned[bp] # options[breakpoints[Largest(S) + 1]]

\* C3: a pruned map holds no "inherit" and no empty string, whatever the number
\* of breakpoints set, and with span semantics never holds mobile = 1.
C3_NoSentinelEmitted ==
    pc = "pruned" =>
        /\ \A bp \in BreakpointNames : pruned[bp] # Inherit /\ pruned[bp] # EmptyString
        /\ isSpanValue => pruned["mobile"] # Num(1)

\* a map that agrees with opts up to breakpoint index i and holds v above it
WithLargerSetTo(opts, i, v) ==
    [b \in BreakpointNames |-> IF indexOf(b) <= i THEN opts[b] ELSE v]

\* C4: the filled map defines all six breakpoints; each holds the value of the
\* largest breakpoint of the map that has a value (is neither absent nor the
\* empty string) and is not larger than it, or the fallback when there is none;
\* whatever the larger breakpoints of the map hold, the value is the same.
C4_FillFromSmaller ==
    pc = "filled" =>
        \A bp \in BreakpointNames :
            LET S == SmallerOrEqual(options, indexOf(bp), HasValue)
            IN  /\ HasValue(filled[bp])
                /\ filled[bp] = IF S = {} THEN fallback
                                ELSE options[breakpoints[Largest(S) + 1]]
                /\ \A v \in BreakpointValues :
                        fillMissingBreakpoints(
                            WithLargerSetTo(options, indexOf(bp), v), fallback)[bp]
                        = filled[bp]

\* C4 witness: a gap between two set breakpoints was filled from the smaller
\* one while a larger breakpoint holds another value, and mobile took the fallback.
C4_Witness ==
    /\ pc = "filled"
    /\ options["mobile"] = Undefined
    /\ options["tablet"] = Num(1)
    /\ options["tabletWide"] = EmptyString
    /\ options["laptop"] = Undefined
    /\ options["desktop"] = Num(2)
    /\ filled["mobile"] = fallback
    /\ filled["laptop"] = Num(1)

(***************************************************************************)
(* orderItemsForMasonryColumns.  A JavaScript array is a sequence; a slot   *)
(* that was never assigned is a hole.                                       *)
(***************************************************************************)
Letters == <<"a", "b", "c", "d", "e", "f", "g", "h">>

Hole == "<empty>"

\* new Array(length)
NewArray(length) == [k \in 1..length |-> Hole]

\* array[index] = value, index 0-based; assigning past the end grows the array
Assign(array, index, value) ==
    [k \in 1..(IF index + 1 > Len(array) THEN index + 1 ELSE Len(array)) |->
        IF k = index + 1 THEN value
        ELSE IF k <= Len(array) THEN array[k] ELSE Hole]

\* a plausible slip: Math.floor instead of Math.ceil
rowCountFloor(length, columns) == length \div columns

\* Math.ceil(length / columns) for columns >= 1
rowCount(length, columns) == (length + columns - 1) \div columns

\* a plausible slip: the column stride is the column count instead of the row count
targetIndexColumnStride(index, columns, rows) ==
    (index \div columns) + (index % columns) * columns

\* row + col * rowCount, with col = i % columnCount and row = Math.floor(i / columnCount)
targetIndex(index, columns, rows) ==
    (index \div columns) + (index % columns) * rows

InitMasonry ==
    /\ pc = "order"
    /\ \E n \in 0..MaxItems : items = SubSeq(Letters, 1, n)
    /\ columnCount \in 1..MaxColumns
    /\ reordered = NewArray(Len(items))
    /\ loopI = 0
    /\ BreakpointsIdle
    /\ StringIdle
    /\ PatternIdle
    /\ GeneratorIdle

\* one iteration of the for loop
OrderStep ==
    /\ pc = "order"
    /\ loopI < Len(items)
    /\ reordered' = Assign(reordered,
                           targetIndex(loopI, columnCount, rowCount(Len(items), columnCount)),
                           items[loopI + 1])
    /\ loopI' = loopI + 1
    /\ UNCHANGED <<pc, items, columnCount, exceptMasonry>>

\* the loop ends and the array is returned
OrderReturn ==
    /\ pc = "order"
    /\ loopI = Len(items)
    /\ pc' = "ordered"
    /\ UNCHANGED <<items, columnCount, reordered, loopI, exceptMasonry>>

NextMasonry == OrderStep \/ OrderReturn

SpecMasonry == InitMasonry /\ [][NextMasonry]_vars

(***************************************************************************)
(* Claims about orderItemsForMasonryColumns, checked under SpecMasonry.     *)
(***************************************************************************)

SixItemsThreeColumns ==
    /\ pc = "ordered"
    /\ items = <<"a", "b", "c", "d", "e", "f">>
    /\ columnCount = 3

\* C10 as stated: orderItemsForMasonryColumns([a,b,c,d,e,f], 3) returns
\* [a,c,e,b,d,f].
C10_AsStated ==
    SixItemsThreeColumns => reordered = <<"a", "c", "e", "b", "d", "f">>

\* C10 amended: orderItemsForMasonryColumns([a,b,c,d,e,f], 3) returns
\* [a,d,b,e,c,f], the three columns (a,d), (b,e), (c,f) one after the other.
C10_SixItemsThreeColumns ==
    SixItemsThreeColumns => reordered = <<"a", "d", "b", "e", "c", "f">>

\* C10 witness: the six items have been ordered for three columns.
C10_Witness == SixItemsThreeColumns /\ loopI = 6 /\ Len(reordered) = 6

\* the number of entries per column when n items are laid out in c columns
EntriesPerColumn(n, c) == IF n % c = 0 THEN n \div c ELSE (n \div c) + 1

\* the cell in the given column and row (both 0-based) when the array fills the
\* columns top to bottom with perColumn entries each; a cell past the end of
\* the array is empty
CellAt(array, perColumn, column, row) ==
    IF row + column * perColumn + 1 <= Len(array)
    THEN array[row + column * perColumn + 1]
    ELSE Hole

\* the p-th cell (0-based) met when the cells are read row by row, left to right
CellRead(array, perColumn, columns, p) ==
    CellAt(array, perColumn, p % columns, p \div columns)

\* C11: when the returned array is filled into columnCount columns top to
\* bottom with ceil(n / columnCount) entries per column, reading the cells row
\* by row, left to right, meets the n items in their original order; the cells
\* after them (there are some when n is not a multiple of columnCount) are
\* empty.
C11_RowMajorReadingRecoversItems ==
    pc = "ordered" =>
        LET n == Len(items)
            perColumn == EntriesPerColumn(n, columnCount)
        IN  /\ Len(reordered) <= perColumn * columnCount
            /\ \A p \in 0..(perColumn * columnCount - 1) :
                    CellRead(reordered, perColumn, columnCount, p) =
                        IF p < n THEN items[p + 1] ELSE Hole

\* C11 witness: four items ordered for three columns; the second column ends
\* with an empty slot.
C11_Witness ==
    /\ pc = "ordered"
    /\ items = <<"a", "b", "c", "d">>
    /\ columnCount = 3
    /\ reordered = <<"a", "d", "b", Hole, "c">>

(***************************************************************************)
(* stringToPattern.                                                         *)
(***************************************************************************)

\* a plausible slip: the test for a numeric token is not anchored (/\d+/)
isNumericTokenUnanchored(token) == \E k \in 1..Len(token) : IsDigit(token[k])

\* /^\d+$/.test(item)
isNumericToken(token) == Len(token) > 0 /\ \A k \in 1..Len(token) : IsDigit(token[k])

convertSinglePattern(rowText) ==
    LET tokens == splitWhiteSpace(trim(rowText))
    IN  [k \in 1..Len(tokens) |->
            IF isNumericToken(tokens[k]) THEN parseInt(tokens[k]) ELSE Str(tokens[k])]

stringToPattern(patternText) ==
    IF includes(patternText, ",")
    THEN LET rows == split(patternText, ",")
         IN  Arr([k \in 1..Len(rows) |-> Arr(convertSinglePattern(rows[k]))])
    ELSE Arr(convertSinglePattern(patternText))

\* the characters of the pattern strings of the model
TextAlphabet == {"0", "1", "2", "/", " ", ","}

RECURSIVE TextsOfLength(_)
TextsOfLength(n) ==
    IF n = 0 THEN {<<>>}
    ELSE {<<c>> \o t : c \in TextAlphabet, t \in TextsOfLength(n - 1)}

\* "1 2 1, 2 1 1", the pattern string of the README
ReadmeText == <<"1", " ", "2", " ", "1", ",", " ", "2", " ", "1", " ", "1">>

PatternTexts == UNION {TextsOfLength(n) : n \in 0..MaxTextLength} \cup {ReadmeText}

InitString ==
    /\ pc = "text"
    /\ text \in PatternTexts
    /\ userPattern = Idle
    /\ BreakpointsIdle
    /\ MasonryIdle
    /\ PatternIdle
    /\ GeneratorIdle

\* a caller converts a pattern string
StringToPattern ==
    /\ pc = "text"
    /\ userPattern' = stringToPattern(text)
    /\ pc' = "converted"
    /\ UNCHANGED <<text, exceptString>>

NextString == StringToPattern

SpecString == InitString /\ [][NextString]_vars

(***************************************************************************)
(* Claims about stringToPattern, checked under SpecString.                  *)
(***************************************************************************)

\* the maximal runs of characters of chars that are not white space, as
\* <<first, last>> positions
TokenRuns(chars) ==
    {r \in (1..Len(chars)) \X (1..Len(chars)) :
        /\ r[1] <= r[2]
        /\ \A k \in r[1]..r[2] : ~IsWhiteSpace(chars[k])
        /\ r[1] = 1 \/ IsWhiteSpace(chars[r[1] - 1])
        /\ r[2] = Len(chars) \/ IsWhiteSpace(chars[r[2] + 1])}

\* the value a token stands for: its number when it is made of digits only,
\* the token itself otherwise
TokenValue(token) ==
    IF token # <<>> /\ \A k \in 1..Len(token) : token[k] \in {DigitChars[d] : d \in 1..10}
    THEN LET Power(e) == IF e = 0 THEN 1 ELSE IF e = 1 THEN 10 ELSE IF e = 2 THEN 100
                         ELSE IF e = 3 THEN 1000 ELSE IF e = 4 THEN 10000 ELSE 100000
             Place(k) == DigitValue(token[k]) * Power(Len(token) - k)
             Sum[k \in 0..Len(token)] == IF k = 0 THEN 0 ELSE Sum[k - 1] + Place(k)
         IN  Num(Sum[Len(token)])
    ELSE Str(token)

\* row holds the tokens of segment, in order; a segment without any token
\* gives the single empty token
IsRowOf(row, segment) ==
    LET runs == TokenRuns(segment)
    IN  IF runs = {} THEN row = <<Str(<<>>)>>
        ELSE /\ Len(row) = Cardinality(runs)
             /\ \A r \in runs :
                    row[1 + Cardinality({q \in runs : q[1] < r[1]})]
                        = TokenValue(SubSeq(segment, r[1], r[2]))

\* the comma-separated segments of chars, as <<first, last + 1>> positions
\* between two neighbouring commas (or string ends)
Commas(chars) == {k \in 1..Len(chars) : chars[k] = ","}

SegmentOf(chars, n) ==
    LET cuts == Commas(chars) \cup {0, Len(chars) + 1}
        from == CHOOSE k \in cuts : Cardinality({j \in cuts : j < k}) = n - 1
        to == CHOOSE k \in cuts : Cardinality({j \in cuts : j < k}) = n
    IN  SubSeq(chars, from + 1, to - 1)

\* C9: stringToPattern splits on commas into rows and on white space into
\* tokens, turns the tokens made of decimal digits only into integers and keeps
\* the others as strings; without a comma the result is a flat sequence, with
\* commas it has one row per comma-separated segment; "1 2 1, 2 1 1" gives
\* [[1,2,1],[2,1,1]].
C9_StringToPattern ==
    pc = "converted" =>
        /\ userPattern.t = "array"
        /\ Commas(text) = {} =>
                /\ \A k \in 1..Len(userPattern.a) : userPattern.a[k].t # "array"
                /\ IsRowOf(userPattern.a, text)
        /\ Commas(text) # {} =>
                /\ Len(userPattern.a) = Cardinality(Commas(text)) + 1
                /\ \A n \in 1..Len(userPattern.a) :
                        /\ userPattern.a[n].t = "array"
                        /\ IsRowOf(userPattern.a[n].a, SegmentOf(text, n))
        /\ text = ReadmeText =>
                userPattern = Arr(<<Arr(<<Num(1), Num(2), Num(1)>>),
                                    Arr(<<Num(2), Num(1), Num(1)>>)>>)

\* C9 witness: the README's two-row string has been converted.
C9_Witness ==
    /\ pc = "converted"
    /\ text = ReadmeText
    /\ Len(userPattern.a) = 2

(***************************************************************************)
(* The pattern grammar, column inference and the cycle resolver of the      *)
(* multi-row implementation.                                                *)
(***************************************************************************)

\* string.split(sep).map(Number)
splitNumbers(chars, sep) ==
    LET parts == split(chars, sep)
    IN  [k \in 1..Len(parts) |-> Number(parts[k])]

getSpanLength(span) ==
    IF isNumber(span) THEN span
    ELSE IF ~includes(span.s, "/") THEN parseInt(span.s)
    ELSE LET numbers == splitNumbers(span.s, "/")
             start == elementAt(numbers, 0)
             end == elementAt(numbers, 1)
         IN  IF end = Num(-1) THEN Null ELSE minus(end, start)

isExplicitSpan(span) == span.t = "string" /\ includes(span.s, "/")

\* a plausible slip: the test of helpers.ts, which does not look for ":"
isShorthandExplicitSyntaxWithoutColon(span) ==
    /\ span.t = "string"
    /\ ~includes(span.s, "/")
    /\ includes(span.s, "-")
    /\ ~startsWith(span.s, "-")

isShorthandExplicitSyntax(span) ==
    /\ span.t = "string"
    /\ ~includes(span.s, "/")
    /\ ~includes(span.s, ":")
    /\ includes(span.s, "-")
    /\ ~startsWith(span.s, "-")

\* `${start}/${end}`
explicitSpanOf(start, end) == Str(toString(start) \o <<"/">> \o toString(end))

\* the elements of the returned array
maybeResolveShorthandSyntax(spanPattern) ==
    IF isShorthandExplicitSyntax(spanPattern)
    THEN LET positions == splitNumbers(spanPattern.s, "-")
         IN  [k \in 1..(Len(positions) - 1) |-> explicitSpanOf(positions[k], positions[k + 1])]
    ELSE spanPattern.a

\* a plausible slip: a bare string token that is not explicit is coerced to a number
parseSpanCoerced(span) ==
    IF isNumber(span) THEN [col |-> span, row |-> Num(1)]
    ELSE IF includes(span.s, ":")
    THEN LET parts == split(span.s, ":")
         IN  [col |-> Str(parts[1]),
              row |-> IF Len(parts) >= 2 THEN Str(parts[2]) ELSE Undefined]
    ELSE [col |-> IF isExplicitSpan(span) THEN span ELSE parseInt(span.s), row |-> Num(1)]

parseSpan(span) ==
    IF isNumber(span) THEN [col |-> span, row |-> Num(1)]
    ELSE IF includes(span.s, ":")
    THEN LET parts == split(span.s, ":")
         IN  [col |-> Str(parts[1]),
              row |-> IF Len(parts) >= 2 THEN Str(parts[2]) ELSE Undefined]
    ELSE [col |-> span, row |-> Num(1)]

\* getSpanValue of the multi-row implementation: `span ${span}` for a number and
\* for a string without "/", the string itself otherwise
spanValueOf(span) ==
    IF isNumber(span) \/ ~includes(span.s, "/")
    THEN Str(<<"s", "p", "a", "n", " ">> \o toString(span))
    ELSE span

\* the entries with span !== 1, mapped through getSpanValue; an absent key stays absent
getSpanValues(spanByBreakpoint) ==
    [bp \in DOMAIN spanByBreakpoint |->
        IF spanByBreakpoint[bp] = Undefined \/ spanByBreakpoint[bp] = Num(1) THEN Undefined
        ELSE spanValueOf(spanByBreakpoint[bp])]

\* a parsed span that stands where a row is expected: a plain object, not an array
parsedSpanObject(spans) == [t |-> "object", col |-> spans.col, row |-> spans.row]

\* the rows of the result are arrays (Arr) of parsed spans, except that a bare token
\* next to a nested array is returned as the parsed span itself
parseMultiRowPattern(userSpanPattern) ==
    IF userSpanPattern.t = "array" /\ Len(userSpanPattern.a) > 0
    THEN LET elems == userSpanPattern.a
             hasNestedArray == \E k \in 1..Len(elems) : elems[k].t = "array"
             parseRow(row) == Arr([k \in 1..Len(row) |-> parseSpan(row[k])])
         IN  IF hasNestedArray
             THEN [k \in 1..Len(elems) |->
                    IF elems[k].t = "array" \/ isShorthandExplicitSyntax(elems[k])
                    THEN parseRow(maybeResolveShorthandSyntax(elems[k]))
                    ELSE parsedSpanObject(parseSpan(elems[k]))]
             ELSE <<parseRow(elems)>>
    ELSE <<Arr(<<[col |-> Num(1), row |-> Num(1)]>>)>>

\* the for loop of calculatePatternColumns over the first k spans of the row
RECURSIVE scanExplicitColumns(_, _)
scanExplicitColumns(rowPattern, k) ==
    IF k = 0
    THEN [maxColumnEnd |-> Num(0), minColumnStart |-> Infinity, hasExplicitSpans |-> FALSE]
    ELSE LET before == scanExplicitColumns(rowPattern, k - 1)
             col == rowPattern[k].col
             numbers == splitNumbers(col.s, "/")
         IN  IF isExplicitSpan(col)
             THEN [maxColumnEnd |-> mathMax(before.maxColumnEnd, elementAt(numbers, 1)),
                   minColumnStart |-> mathMin(before.minColumnStart, elementAt(numbers, 0)),
                   hasExplicitSpans |-> TRUE]
             ELSE before

\* a plausible slip: every span counts as one column, whatever its length
sumSpanLengthsCountingItems(rowPattern, k) == Num(k)

\* rowPattern.reduce((sum, { col }) => sum + (getSpanLength(col) ?? 1), 0) over the first k spans
RECURSIVE sumSpanLengths(_, _)
sumSpanLengths(rowPattern, k) ==
    IF k = 0 THEN Num(0)
    ELSE LET length == getSpanLength(rowPattern[k].col)
         IN  plus(sumSpanLengths(rowPattern, k - 1),
                  IF length = Null \/ length = Undefined THEN Num(1) ELSE length)

\* for (const { col } of rowPattern) throws a TypeError when the row is not an array
\* (and so would rowPattern.reduce, had the loop been skipped)
calculatePatternColumns(row) ==
    IF row.t # "array" THEN TypeError
    ELSE
    LET rowPattern == row.a
        scan == scanExplicitColumns(rowPattern, Len(rowPattern))
    IN  IF scan.hasExplicitSpans
        THEN IF \A k \in 1..Len(rowPattern) : isExplicitSpan(rowPattern[k].col)
             THEN plus(minus(scan.maxColumnEnd,
                             IF scan.minColumnStart = Infinity THEN Num(1)
                             ELSE scan.minColumnStart),
                       Num(1))
             ELSE scan.maxColumnEnd
        ELSE sumSpanLengths(rowPattern, Len(rowPattern))

\* multiRowPattern.map(calculatePatternColumns) throws as soon as one call throws
throwsOnSomeRow(multiRowPattern) ==
    \E k \in 1..Len(multiRowPattern) : calculatePatternColumns(multiRowPattern[k]) = TypeError

\* Math.max(...numbers) over the first k numbers; -Infinity for none
RECURSIVE mathMaxOf(_, _)
mathMaxOf(numbers, k) ==
    IF k = 0 THEN NegativeInfinity
    ELSE IF k = 1 THEN toNumber(numbers[1])
    ELSE mathMax(mathMaxOf(numbers, k - 1), numbers[k])

\* a plausible slip: the rows are stacked (their columns added) instead of overlaid
RECURSIVE sumOf(_, _)
sumOf(numbers, k) == IF k = 0 THEN Num(0) ELSE plus(sumOf(numbers, k - 1), numbers[k])

inferColumnCountStacked(multiRowPattern) ==
    IF throwsOnSomeRow(multiRowPattern) THEN TypeError ELSE
    sumOf([k \in 1..Len(multiRowPattern) |-> calculatePatternColumns(multiRowPattern[k])],
          Len(multiRowPattern))

inferColumnCount(multiRowPattern) ==
    IF throwsOnSomeRow(multiRowPattern) THEN TypeError ELSE
    mathMaxOf([k \in 1..Len(multiRowPattern) |-> calculatePatternColumns(multiRowPattern[k])],
              Len(multiRowPattern))

\* a plausible slip: the start is shifted by the previous row end itself, one line too far
adjustExplicitSpansForNextRowFromEnd(explicitSpan, previousRowEnd) ==
    IF isExplicitSpan(explicitSpan.row)
    THEN LET numbers == splitNumbers(explicitSpan.row.s, "/")
             start == elementAt(numbers, 0)
             end == elementAt(numbers, 1)
             spanLength == minus(end, start)
             adjustedStart == plus(start, previousRowEnd)
             adjustedEnd == plus(adjustedStart, spanLength)
         IN  [col |-> explicitSpan.col, row |-> explicitSpanOf(adjustedStart, adjustedEnd)]
    ELSE [col |-> explicitSpan.col, row |-> explicitSpan.row]

adjustExplicitSpansForNextRow(explicitSpan, previousRowEnd) ==
    IF isExplicitSpan(explicitSpan.row)
    THEN LET numbers == splitNumbers(explicitSpan.row.s, "/")
             start == elementAt(numbers, 0)
             end == elementAt(numbers, 1)
             spanLength == minus(end, start)
             adjustedStart == minus(plus(start, previousRowEnd), Num(1))
             adjustedEnd == plus(adjustedStart, spanLength)
         IN  [col |-> explicitSpan.col, row |-> explicitSpanOf(adjustedStart, adjustedEnd)]
    ELSE [col |-> explicitSpan.col, row |-> explicitSpan.row]

\* [...array].reverse()
reverse(array) == [k \in 1..Len(array) |-> array[Len(array) + 1 - k]]

\* the number of items of the first k rows
RECURSIVE itemsOfRows(_, _)
itemsOfRows(multiRowPattern, k) ==
    IF k = 0 THEN 0 ELSE itemsOfRows(multiRowPattern, k - 1) + Len(multiRowPattern[k].a)

MirrorOff == "false"

Mirrors == {MirrorOff, "even", "odd"}

\* a plausible slip: the running item count is compared with <= instead of <
rowPatternIndexOfInclusive(multiRowPattern, positionInCycle) ==
    LET hits == {k \in 1..Len(multiRowPattern) :
                    positionInCycle <= itemsOfRows(multiRowPattern, k)}
    IN  IF hits = {} THEN 0
        ELSE (CHOOSE k \in hits : \A j \in hits : k <= j) - 1

\* the row of the cycle that holds the position: the first row at which the
\* running item count exceeds it (row 0 when the loop never breaks); 0-based
rowPatternIndexOf(multiRowPattern, positionInCycle) ==
    LET hits == {k \in 1..Len(multiRowPattern) :
                    positionInCycle < itemsOfRows(multiRowPattern, k)}
    IN  IF hits = {} THEN 0
        ELSE (CHOOSE k \in hits : \A j \in hits : k <= j) - 1

\* parseInt(previousSpans.row.split("/")[1], 10), or 1 + the implicit row span
rowEndOf(previousSpans) ==
    IF isExplicitSpan(previousSpans.row)
    THEN parseInt(elementAt(split(previousSpans.row.s, "/"), 1))
    ELSE plus(Num(1),
              IF isNumber(previousSpans.row) THEN previousSpans.row
              ELSE parseInt(previousSpans.row.s))

\* multiRowPattern.reduce((sum, rowPattern) => sum + rowPattern.length, 0)
itemsPerPatternOf(multiRowPattern) == itemsOfRows(multiRowPattern, Len(multiRowPattern))

\* no row at all, or an itemsPerPattern of NaN (a row without a length) or 0:
\* every position is NaN, no span is found and no cycle is past the first
hasNoCycle(multiRowPattern) ==
    \/ Len(multiRowPattern) = 0
    \/ \E k \in 1..Len(multiRowPattern) : multiRowPattern[k].t # "array"
    \/ itemsPerPatternOf(multiRowPattern) = 0

\* Math.floor(index / itemsPerPattern)
patternCycleOf(itemIndex, multiRowPattern) == itemIndex \div itemsPerPatternOf(multiRowPattern)

\* the spans found in the (possibly mirrored) row, before any row adjustment
entrySpansOf(itemIndex, multiRowPattern, mirrorOption) ==
    LET patternCycle == patternCycleOf(itemIndex, multiRowPattern)
        positionInCycle == itemIndex % itemsPerPatternOf(multiRowPattern)
        rowPatternIndex == rowPatternIndexOf(multiRowPattern, positionInCycle)
        shouldMirror ==
            /\ mirrorOption # MirrorOff
            /\ IF mirrorOption = "even" THEN patternCycle % 2 = 1
               ELSE patternCycle % 2 = 0
        rowPattern == IF shouldMirror THEN reverse(multiRowPattern[rowPatternIndex + 1].a)
                      ELSE multiRowPattern[rowPatternIndex + 1].a
        previousRowsItems == itemsOfRows(multiRowPattern, rowPatternIndex)
        positionInRowPattern == positionInCycle - previousRowsItems
    IN  IF positionInRowPattern >= 0 /\ positionInRowPattern < Len(rowPattern)
        THEN rowPattern[positionInRowPattern + 1]
        ELSE [col |-> Num(1), row |-> Num(1)]

\* patternCycle > 0 && isExplicitSpan(spans.row)
adjustsRowAt(itemIndex, multiRowPattern, mirrorOption) ==
    /\ ~hasNoCycle(multiRowPattern)
    /\ patternCycleOf(itemIndex, multiRowPattern) > 0
    /\ isExplicitSpan(entrySpansOf(itemIndex, multiRowPattern, mirrorOption).row)

\* a plausible slip: the item looked up is the one just before, not the one a cycle before
itemIndexBefore(itemIndex, multiRowPattern) == itemIndex - 1

\* itemIndexInPreviousCycle
itemIndexInPreviousCycleOf(itemIndex, multiRowPattern) ==
    itemIndex - itemsPerPatternOf(multiRowPattern)

\* the call recurses: the row is adjusted and there is an item a cycle before
recursesAt(itemIndex, multiRowPattern, mirrorOption) ==
    /\ adjustsRowAt(itemIndex, multiRowPattern, mirrorOption)
    /\ itemIndexInPreviousCycleOf(itemIndex, multiRowPattern) >= 0

RECURSIVE getItemSpans(_, _, _, _)
getItemSpans(itemIndex, gridColumns, multiRowPattern, mirrorOption) ==
    IF hasNoCycle(multiRowPattern) THEN [col |-> Num(1), row |-> Num(1)]
    ELSE IF adjustsRowAt(itemIndex, multiRowPattern, mirrorOption)
    THEN adjustExplicitSpansForNextRow(
            entrySpansOf(itemIndex, multiRowPattern, mirrorOption),
            IF recursesAt(itemIndex, multiRowPattern, mirrorOption)
            THEN rowEndOf(getItemSpans(itemIndexInPreviousCycleOf(itemIndex, multiRowPattern),
                                       gridColumns, multiRowPattern, mirrorOption))
            ELSE Num(patternCycleOf(itemIndex, multiRowPattern) + 1))
    ELSE entrySpansOf(itemIndex, multiRowPattern, mirrorOption)

\* a plausible slip: rowPattern.reverse() without the copy reverses the row of the
\* pattern itself whenever the cycle is mirrored
multiRowPatternReversedInPlace(multiRowPattern, itemIndex, mirrorOption) ==
    IF hasNoCycle(multiRowPattern) \/ mirrorOption = MirrorOff THEN multiRowPattern
    ELSE IF patternCycleOf(itemIndex, multiRowPattern) % 2
                = (IF mirrorOption = "even" THEN 1 ELSE 0)
    THEN [multiRowPattern EXCEPT
            ![rowPatternIndexOf(multiRowPattern,
                                itemIndex % itemsPerPatternOf(multiRowPattern)) + 1] =
                Arr(reverse(@.a))]
    ELSE multiRowPattern

\* the pattern a getItemSpans call leaves behind: the row is copied before it is
\* reversed ([...rowPattern].reverse()) and nothing else is written
multiRowPatternAfterGetItemSpans(multiRowPattern, itemIndex, mirrorOption) == multiRowPattern

(***************************************************************************)
(* The single-row implementation of helpers.ts (getPatternObject), which    *)
(* has its own copies of the span helpers.                                  *)
(***************************************************************************)

\* getSpanLength of helpers.ts
helpersGetSpanLength(span) ==
    IF isNumber(span) THEN span
    ELSE LET numbers == splitNumbers(span.s, "/")
             start == elementAt(numbers, 0)
             end == elementAt(numbers, 1)
         IN  IF end = Num(-1) THEN Null ELSE minus(end, start)

\* isShorthandExplicitSyntax of helpers.ts
helpersIsShorthandExplicitSyntax(span) ==
    /\ span.t = "string"
    /\ ~includes(span.s, "/")
    /\ includes(span.s, "-")
    /\ ~startsWith(span.s, "-")

\* the elements of the returned array
expandShorthandSpanPattern(spanPattern) ==
    IF helpersIsShorthandExplicitSyntax(spanPattern)
    THEN LET positions == splitNumbers(spanPattern.s, "-")
         IN  [k \in 1..(Len(positions) - 1) |-> explicitSpanOf(positions[k], positions[k + 1])]
    ELSE spanPattern.a

\* isExplicit of getPatternObject
isExplicitPattern(spanPattern) ==
    \/ helpersIsShorthandExplicitSyntax(spanPattern)
    \/ \E k \in 1..Len(spanPattern.a) :
            spanPattern.a[k].t = "string" /\ includes(spanPattern.a[k].s, "/")

\* numbers.reduce((sum, span) => sum + span, 0) over the first k numbers, null lengths filtered out
RECURSIVE sumWithoutNull(_, _)
sumWithoutNull(lengths, k) ==
    IF k = 0 THEN Num(0)
    ELSE IF lengths[k] = Null THEN sumWithoutNull(lengths, k - 1)
    ELSE plus(sumWithoutNull(lengths, k - 1), lengths[k])

\* implicitColumns of getPatternObject; left undefined for a vertical pattern
implicitColumnsOf(spanPattern, patternDirection) ==
    IF patternDirection # "horizontal" THEN Undefined
    ELSE IF helpersIsShorthandExplicitSyntax(spanPattern)
    THEN LET parts == split(spanPattern.s, "-")
         IN  minus(Number(parts[Len(parts)]), Num(1))
    ELSE IF isExplicitPattern(spanPattern)
    THEN LET ends == [k \in 1..Len(spanPattern.a) |->
                        IF spanPattern.a[k].t = "string"
                        THEN minus(elementAt(splitNumbers(spanPattern.a[k].s, "/"), 1), Num(1))
                        ELSE spanPattern.a[k]]
         IN  mathMaxOf(ends, Len(ends))
    ELSE LET lengths == [k \in 1..Len(spanPattern.a) |-> helpersGetSpanLength(spanPattern.a[k])]
         IN  sumWithoutNull(lengths, Len(lengths))

\* resolveSpanPattern of getPatternObject
resolveSpanPattern(spanPattern, patternDirection) ==
    IF ~isExplicitPattern(spanPattern) THEN spanPattern.a
    ELSE LET expanded == expandShorthandSpanPattern(spanPattern)
         IN  [k \in 1..Len(expanded) |->
                IF isNumber(expanded[k])
                THEN explicitSpanOf(Num(1), plus(expanded[k], Num(1)))
                ELSE LET numbers == splitNumbers(expanded[k].s, "/")
                         start == elementAt(numbers, 0)
                         end == elementAt(numbers, 1)
                     IN  explicitSpanOf(
                            start,
                            IF patternDirection = "vertical" /\ end = Num(-1)
                            THEN plus(implicitColumnsOf(spanPattern, patternDirection), Num(1))
                            ELSE end)]

\* Math.min(...numbers) over the first k numbers; Infinity for none
RECURSIVE mathMinOf(_, _)
mathMinOf(numbers, k) ==
    IF k = 0 THEN Infinity ELSE mathMin(mathMinOf(numbers, k - 1), numbers[k])

\* the object getPatternObject returns, with the values its closures capture
\* Each const of the function body is computed once and handed on.
patternObjectOf(resolvedSpanPattern, spanLengths, implicitColumns, isExplicit, direction, mirrorOption) ==
    [spans |-> resolvedSpanPattern,
     spanLengths |-> spanLengths,
     minSpanLength |-> mathMinOf(spanLengths, Len(spanLengths)),
     implicitColumns |-> implicitColumns,
     isExplicit |-> isExplicit,
     patternDirection |-> direction,
     mirror |-> mirrorOption]

\* resolvedSpanPattern.map(getSpanLength)
spanLengthsOf(resolvedSpanPattern) ==
    [k \in 1..Len(resolvedSpanPattern) |-> helpersGetSpanLength(resolvedSpanPattern[k])]

patternObjectOfResolved(resolvedSpanPattern, implicitColumns, isExplicit, direction, mirrorOption) ==
    patternObjectOf(resolvedSpanPattern, spanLengthsOf(resolvedSpanPattern), implicitColumns,
                    isExplicit, direction, mirrorOption)

getPatternObject(spanPattern, patternDirection, mirrorOption) ==
    patternObjectOfResolved(resolveSpanPattern(spanPattern, patternDirection),
                            implicitColumnsOf(spanPattern, patternDirection),
                            isExplicitPattern(spanPattern), patternDirection, mirrorOption)

\* currentStart before the k-th length of getReversedSpanPattern's map
RECURSIVE currentStartAt(_, _)
currentStartAt(reversedLengths, k) ==
    IF k = 1 THEN Num(1)
    ELSE plus(currentStartAt(reversedLengths, k - 1), reversedLengths[k - 1])

getReversedSpanPattern(object) ==
    IF object.patternDirection = "horizontal" /\ object.isExplicit
    THEN LET reversedLengths == reverse(object.spanLengths)
         IN  [k \in 1..Len(reversedLengths) |->
                explicitSpanOf(currentStartAt(reversedLengths, k),
                               plus(currentStartAt(reversedLengths, k), reversedLengths[k]))]
    ELSE reverse(object.spans)

\* getItemSpanValue of the object; undefined for an empty pattern
getItemSpanValue(object, itemIndex) ==
    LET patternLength == Len(object.spans)
    IN  IF patternLength = 0 THEN Undefined
        ELSE LET repetitionNumber == itemIndex \div patternLength
                 shouldReverse ==
                    /\ object.mirror # MirrorOff
                    /\ IF object.mirror = "even" THEN repetitionNumber % 2 = 0
                       ELSE repetitionNumber % 2 = 1
                 spanPattern == IF shouldReverse THEN getReversedSpanPattern(object)
                                ELSE object.spans
             IN  spanPattern[(itemIndex % patternLength) + 1]

\* the pattern object a getItemSpanValue call leaves behind: getReversedSpanPattern
\* reverses copies ([...spanLengths].reverse(), [...resolvedSpanPattern]) and
\* nothing else is written
patternObjectAfterGetItemSpanValue(object, itemIndex) == object

(***************************************************************************)
(* The patterns of the model and the calls made on them.                    *)
(***************************************************************************)

\* the grid lines the explicit spans of the model start and end at
GridLines == {1, 3, 6}

ImplicitSpans == {Num(k) : k \in 1..MaxSpan}

ExplicitSpans ==
    {explicitSpanOf(Num(line[1]), Num(line[2])) :
        line \in {l \in GridLines \X GridLines : l[1] < l[2]}}

RowSpans == {Num(2), explicitSpanOf(Num(1), Num(3))}

RECURSIVE ArraysOf(_, _)
ArraysOf(elements, length) ==
    IF length = 0 THEN {<<>>}
    ELSE {<<e>> \o rest : e \in elements, rest \in ArraysOf(elements, length - 1)}

ArraysUpTo(elements, length) == UNION {ArraysOf(elements, n) : n \in 1..length}

\* ["1/3", "3/6", "6/10"] and its shorthand "1-3-6-10", the explicit pattern of the README
ReadmeExplicitPattern ==
    Arr(<<explicitSpanOf(Num(1), Num(3)), explicitSpanOf(Num(3), Num(6)),
          explicitSpanOf(Num(6), Num(10))>>)

ReadmeShorthandPattern == Str(<<"1", "-", "3", "-", "6", "-", "1", "0">>)

FlatPatterns ==
    {Arr(spans) : spans \in ArraysUpTo(ImplicitSpans \cup ExplicitSpans, MaxPatternLength)}
        \cup {ReadmeExplicitPattern, ReadmeShorthandPattern, Str(<<"1", "-", "3", "-", "6">>)}

\* [[2, 2], [1, 3]], the multi-row pattern of the README
ReadmeMultiRowPattern == Arr(<<Arr(<<Num(2), Num(2)>>), Arr(<<Num(1), Num(3)>>)>>)

\* [[1, "1/3"], [2, 2]]: a row that mixes an implicit and an explicit span, then an implicit row
MixedRowsPattern ==
    Arr(<<Arr(<<Num(1), explicitSpanOf(Num(1), Num(3))>>), Arr(<<Num(2), Num(2)>>)>>)

NestedPatterns ==
    {Arr(rows) : rows \in ArraysUpTo({Arr(spans) : spans \in ArraysUpTo(RowSpans, MaxRowLength)},
                                     MaxRows)}
        \cup {ReadmeMultiRowPattern, MixedRowsPattern}

\* [[1, 2], 3]: a nested row followed by a bare token
RowThenBareToken == Arr(<<Arr(<<Num(1), Num(2)>>), Num(3)>>)

\* ["1/3", [2]]: a bare explicit token followed by a nested row
BareTokenThenRow == Arr(<<explicitSpanOf(Num(1), Num(3)), Arr(<<Num(2)>>)>>)

\* "3": a bare string that is not the shorthand syntax
BareNumberString == Str(<<"3">>)

MalformedPatterns == {RowThenBareToken, BareTokenThenRow, BareNumberString}

Patterns == FlatPatterns \cup NestedPatterns \cup MalformedPatterns

\* "start/-1": an explicit span that runs to the last line of the grid
openEndedSpanOf(start) == Str(toString(start) \o <<"/", "-", "1">>)

\* the spans of the flat patterns that hold an open-ended span
OpenEndedRowSpans ==
    {Num(2), explicitSpanOf(Num(1), Num(3)), explicitSpanOf(Num(3), Num(6)),
     openEndedSpanOf(Num(1)), openEndedSpanOf(Num(2))}

\* flat patterns with at least one span whose end is -1
OpenEndedPatterns ==
    {Arr(spans) : spans \in
        {row \in ArraysUpTo(OpenEndedRowSpans, MaxPatternLength) :
            \E k \in 1..Len(row) : row[k] \in {openEndedSpanOf(Num(1)), openEndedSpanOf(Num(2))}}}

PatternDirections == {"horizontal", "vertical"}

InitPattern ==
    /\ pc = "options"
    /\ pattern \in Patterns
    /\ mirror \in Mirrors
    /\ parsedPattern = Idle
    /\ inferredColumns = Idle
    /\ patternObject = Idle
    /\ calledIndex = Idle
    /\ itemSpans = Idle
    /\ itemSpanValue = Idle
    /\ BreakpointsIdle
    /\ MasonryIdle
    /\ StringIdle
    /\ GeneratorIdle

\* the pattern is parsed and its column count inferred
ParsePattern ==
    /\ pc = "options"
    /\ parsedPattern' = parseMultiRowPattern(pattern)
    /\ inferredColumns' = inferColumnCount(parseMultiRowPattern(pattern))
    /\ pc' = IF inferColumnCount(parseMultiRowPattern(pattern)) = TypeError
             THEN "thrown" ELSE "grid"
    /\ UNCHANGED <<pattern, mirror, patternObject, calledIndex, itemSpans, itemSpanValue,
                   exceptPattern>>

\* the spans of an item are resolved from the parsed pattern
GetItemSpans ==
    /\ pc \in {"grid", "itemSpans"}
    /\ \E itemIndex \in 0..MaxIndex :
        /\ calledIndex' = itemIndex
        /\ itemSpans' = getItemSpans(itemIndex, inferredColumns, parsedPattern, mirror)
        /\ parsedPattern' = multiRowPatternAfterGetItemSpans(parsedPattern, itemIndex, mirror)
    /\ pc' = "itemSpans"
    /\ UNCHANGED <<pattern, mirror, inferredColumns, patternObject, itemSpanValue, exceptPattern>>

\* grid() of grid.ts builds the pattern object of a (flat) spanPattern
GetPatternObject ==
    /\ pc = "options"
    /\ pattern \in FlatPatterns \cup OpenEndedPatterns
    /\ \E patternDirection \in PatternDirections :
        patternObject' = getPatternObject(pattern, patternDirection, mirror)
    /\ pc' = "patternObject"
    /\ UNCHANGED <<pattern, mirror, parsedPattern, inferredColumns, calledIndex, itemSpans,
                   itemSpanValue, exceptPattern>>

\* the span of an item is resolved from the pattern object
GetItemSpanValue ==
    /\ pc \in {"patternObject", "itemSpanValue"}
    /\ \E itemIndex \in 0..MaxIndex :
        /\ calledIndex' = itemIndex
        /\ itemSpanValue' = getItemSpanValue(patternObject, itemIndex)
        /\ patternObject' = patternObjectAfterGetItemSpanValue(patternObject, itemIndex)
    /\ pc' = "itemSpanValue"
    /\ UNCHANGED <<pattern, mirror, parsedPattern, inferredColumns, itemSpans, exceptPattern>>

\* getItemSpans is called with a multi-row pattern that has no rows
GetItemSpansOfNoRows ==
    /\ pc = "options"
    /\ \E itemIndex \in 0..MaxIndex :
        /\ calledIndex' = itemIndex
        /\ itemSpans' = getItemSpans(itemIndex, Num(1), <<>>, mirror)
    /\ pc' = "noRows"
    /\ UNCHANGED <<pattern, mirror, parsedPattern, inferredColumns, patternObject,
                   itemSpanValue, exceptPattern>>

NextPattern ==
    ParsePattern \/ GetItemSpans \/ GetPatternObject \/ GetItemSpanValue \/ GetItemSpansOfNoRows

SpecPattern == InitPattern /\ [][NextPattern]_vars

(***************************************************************************)
(* Claims about column inference and mirroring, checked under SpecPattern.  *)
(***************************************************************************)

Parsed == pc \in {"grid", "itemSpans"}

HasPatternObject == pc \in {"patternObject", "itemSpanValue"}

\* a flat sequence of positive integers
IsImplicitOnly(p) ==
    /\ p.t = "array"
    /\ Len(p.a) >= 1
    /\ \A k \in 1..Len(p.a) : p.a[k].t = "number" /\ p.a[k].n >= 1

\* the sum of a set of <<position, number>> pairs' numbers
RECURSIVE SumOfPairs(_)
SumOfPairs(pairs) ==
    IF pairs = {} THEN 0
    ELSE LET pair == CHOOSE q \in pairs : TRUE
         IN  pair[2] + SumOfPairs(pairs \ {pair})

SumOfSpans(spans) == SumOfPairs({<<k, spans[k].n>> : k \in 1..Len(spans)})

\* the start and the end line written in an explicit span "start/end"
SlashOf(span) == CHOOSE k \in 1..Len(span.s) : span.s[k] = "/"

StartLine(span) == DecimalValue(SubSeq(span.s, 1, SlashOf(span) - 1))

EndLine(span) == DecimalValue(SubSeq(span.s, SlashOf(span) + 1, Len(span.s)))

IsExplicit(span) == span.t = "string" /\ \E k \in 1..Len(span.s) : span.s[k] = "/"

Greatest(S) == CHOOSE x \in S : \A y \in S : y <= x

Least(S) == CHOOSE x \in S : \A y \in S : x <= y

\* C5: for an implicit-only pattern (a flat sequence of positive integers) the
\* inferred column count is the sum of the spans, whether inferred by
\* inferColumnCount or as implicitColumns of a horizontal pattern object.
C5_ImplicitColumnsAreSum ==
    IsImplicitOnly(pattern) =>
        /\ Parsed => inferredColumns = Num(SumOfSpans(pattern.a))
        /\ (HasPatternObject /\ patternObject.patternDirection = "horizontal") =>
                patternObject.implicitColumns = Num(SumOfSpans(pattern.a))

\* C5 witness: the README's [1, 2, 1] has been parsed and 4 columns inferred.
C5_Witness ==
    /\ pc = "grid"
    /\ pattern = Arr(<<Num(1), Num(2), Num(1)>>)
    /\ inferredColumns = Num(4)

\* a flat row of explicit spans that starts at line 1 and in which every span
\* starts where the one before ends
IsContiguousFromOne(spans) ==
    /\ Len(spans) >= 1
    /\ \A k \in 1..Len(spans) : IsExplicit(spans[k])
    /\ StartLine(spans[1]) = 1
    /\ \A k \in 2..Len(spans) : StartLine(spans[k]) = EndLine(spans[k - 1])

\* C6: ["1/3","3/6","6/10"] (or "1-3-6-10") infers 9 columns; a contiguous
\* all-explicit row from line 1 to line E infers E - 1 columns, the tracks it
\* covers.
C6_ExplicitColumnsAreTracks ==
    /\ (Parsed /\ pattern = ReadmeExplicitPattern) => inferredColumns = Num(9)
    /\ (Parsed /\ pattern.t = "array" /\ IsContiguousFromOne(pattern.a)) =>
            inferredColumns = Num(EndLine(pattern.a[Len(pattern.a)]) - 1)
    /\ (HasPatternObject /\ patternObject.patternDirection = "horizontal") =>
            /\ pattern \in {ReadmeExplicitPattern, ReadmeShorthandPattern} =>
                    patternObject.implicitColumns = Num(9)
            /\ (pattern.t = "array" /\ IsContiguousFromOne(pattern.a)) =>
                    patternObject.implicitColumns = Num(EndLine(pattern.a[Len(pattern.a)]) - 1)

\* the rows of an array pattern: its nested arrays, or the flat pattern as one row
RowsOf(p) ==
    IF \E k \in 1..Len(p.a) : p.a[k].t = "array"
    THEN [k \in 1..Len(p.a) |-> p.a[k].a]
    ELSE <<p.a>>

\* the footprint of a row as the specification defines it
Footprint(row) ==
    LET explicit == {k \in 1..Len(row) : IsExplicit(row[k])}
    IN  IF explicit = {} THEN SumOfSpans(row)
        ELSE IF explicit = 1..Len(row)
        THEN Greatest({EndLine(row[k]) : k \in explicit})
                - Least({StartLine(row[k]) : k \in explicit}) + 1
        ELSE Greatest({EndLine(row[k]) : k \in explicit})

\* C7: inferColumnCount of a pattern is the maximum over its rows of the row
\* footprint: max(end) - min(start) + 1 for an all-explicit row, max(end) for a
\* row with some explicit spans, the sum of the spans for a row with none.
C7_ColumnsAreWidestFootprint ==
    (Parsed /\ pattern.t = "array") =>
        inferredColumns =
            Num(Greatest({Footprint(RowsOf(pattern)[k]) : k \in 1..Len(RowsOf(pattern))}))

\* C7 witness: a two-row pattern whose first row mixes an implicit and an
\* explicit span (footprint 3) and whose second row is implicit (footprint 4).
C7_Witness ==
    /\ pc = "grid"
    /\ pattern = MixedRowsPattern
    /\ inferredColumns = Num(4)

\* the spans one cycle hands out, in item order: the rows one after the other,
\* each reversed when the cycle is mirrored
RECURSIVE CycleSpans(_, _, _)
CycleSpans(rows, k, mirrored) ==
    IF k = 0 THEN <<>>
    ELSE CycleSpans(rows, k - 1, mirrored)
         \o (IF mirrored THEN [j \in 1..Len(rows[k]) |-> rows[k][Len(rows[k]) + 1 - j]]
             ELSE rows[k])

\* the span the claim gives item number itemIndex
MirroredOnOddCycles(p, mirrorOption, itemIndex) ==
    LET rows == RowsOf(p)
        perCycle == Len(CycleSpans(rows, Len(rows), FALSE))
        cycle == itemIndex \div perCycle
    IN  CycleSpans(rows, Len(rows), mirrorOption = "even" /\ cycle % 2 = 1)[
            (itemIndex % perCycle) + 1]

\* getItemSpans reverses the odd cycles under "even" and none under false
MirrorOfGetItemSpans ==
    (pc = "itemSpans" /\ pattern.t = "array" /\ mirror \in {"even", MirrorOff}) =>
        itemSpans.col = MirroredOnOddCycles(pattern, mirror, calledIndex)

\* getItemSpanValue reverses the odd cycles under "even" and none under false
MirrorOfGetItemSpanValue ==
    (pc = "itemSpanValue" /\ IsImplicitOnly(pattern) /\ mirror \in {"even", MirrorOff}) =>
        itemSpanValue = MirroredOnOddCycles(pattern, mirror, calledIndex)

\* C8: with mirror = "even" the items of the cycles with an odd 0-based number
\* get the row's spans in reversed order and those of the even cycles in the
\* original order ([2,1,3]: 3,1,2 in cycle 1, 2,1,3 in cycles 0 and 2); with
\* mirror = false no cycle is reversed.
C8_EvenMirrorsOddCycles == MirrorOfGetItemSpans /\ MirrorOfGetItemSpanValue

(***************************************************************************)
(* masonry(): the generator and its getItemStyles, with limit-based hiding. *)
(* A breakpoint object is a map over the six breakpoints in which an absent *)
(* key reads as undefined; a class name list stands for the string that     *)
(* join(" ") makes of it.                                                   *)
(***************************************************************************)
True == [t |-> "boolean", n |-> 1, s |-> <<>>, a |-> <<>>]

\* isObject(item): a breakpoint object, as opposed to a bare value
isObject(item) == DOMAIN item = BreakpointNames

\* { mobile: option }
mobileOnly(option) == [bp \in BreakpointNames |-> IF bp = "mobile" THEN option ELSE Undefined]

asBreakpointObject(option, removeRedundancies) ==
    IF isObject(option)
    THEN IF removeRedundancies THEN removeRedundantBreakpoints(option, FALSE) ELSE option
    ELSE mobileOnly(option)

\* value ?? fallbackValue
nullish(value, fallbackValue) == IF value = Undefined \/ value = Null THEN fallbackValue ELSE value

\* tailwindClassMap.hidden: each class hides at its own breakpoint only
hiddenClasses ==
    [mobile |-> "max-sm:hidden", tablet |-> "sm:max-md:hidden", tabletWide |-> "md:max-lg:hidden",
     laptop |-> "lg:max-xl:hidden", desktop |-> "xl:max-2xl:hidden", desktopWide |-> "2xl:hidden"]

\* the class names of the first k breakpoints that have a value in breakpointOptions
RECURSIVE classNamesUpTo(_, _, _)
classNamesUpTo(classMap, breakpointOptions, k) ==
    IF k = 0 THEN <<>>
    ELSE classNamesUpTo(classMap, breakpointOptions, k - 1) \o
            (IF breakpointOptions[breakpoints[k]] # Undefined
             THEN <<classMap[breakpoints[k]]>> ELSE <<>>)

getResponsiveClassNames(classMap, breakpointOptions) ==
    classNamesUpTo(classMap, breakpointOptions, Len(breakpoints))

\* a plausible slip: index > limit instead of index >= limit
shouldHideItemPastLimit(index, limitByBreakpoint) ==
    [bp \in BreakpointNames |->
        LET limit == limitByBreakpoint[bp]
        IN  limit # Undefined /\ limit # Num(-1) /\ index > limit.n]

shouldHideItem(index, limitByBreakpoint) ==
    [bp \in BreakpointNames |->
        LET limit == limitByBreakpoint[bp]
        IN  limit # Undefined /\ limit # Num(-1) /\ index >= limit.n]

getHiddenClassNames(limit, index) ==
    IF \E bp \in BreakpointNames : limit[bp] # Undefined /\ limit[bp] # Num(-1)
    THEN LET hideByBreakpoint == shouldHideItem(index, limit)
             hiddenBreakpoints ==
                 [bp \in BreakpointNames |-> IF hideByBreakpoint[bp] THEN True ELSE Undefined]
         IN  getResponsiveClassNames(hiddenClasses, hiddenBreakpoints)
    ELSE <<>>

\* `${(1 / columnCount) * 100}%`, kept as the fraction 100 / columnCount
widthPercentage(columnCountOfBreakpoint) ==
    [numerator |-> 100, denominator |-> columnCountOfBreakpoint.n]

\* options.columns ?? { mobile: 1, tablet: 2 }
defaultColumns ==
    [bp \in BreakpointNames |->
        IF bp = "mobile" THEN Num(1) ELSE IF bp = "tablet" THEN Num(2) ELSE Undefined]

\* what masonry(options) computes before it returns the generator
masonry(opts) ==
    [columns |-> asBreakpointObject(nullish(opts.columns, defaultColumns), TRUE),
     limit |-> asBreakpointObject(nullish(opts.limit, Num(-1)), FALSE)]

\* getItemStyles({ index }) of the generator
masonryGetItemStyles(generator, index) ==
    [className |-> getHiddenClassNames(generator.limit, index),
     width |-> [bp \in BreakpointNames |->
                   IF generator.columns[bp] # Undefined
                   THEN widthPercentage(generator.columns[bp]) ELSE Undefined]]

LimitValues == {Undefined} \cup {Num(k) : k \in (-1)..MaxLimit}

\* limit: { mobile: 3, tablet: 6, desktop: -1 }, the limit of the README
ReadmeLimit ==
    [bp \in BreakpointNames |->
        IF bp = "mobile" THEN Num(3) ELSE IF bp = "tablet" THEN Num(6)
        ELSE IF bp = "desktop" THEN Num(-1) ELSE Undefined]

LimitOptions ==
    (LimitValues \cup {Num(3)}) \cup [BreakpointNames -> LimitValues]
        \cup {ReadmeLimit, mobileOnly(Num(3))}

ColumnsOptions ==
    {Undefined,
     [bp \in BreakpointNames |->
        IF bp = "mobile" THEN Num(2) ELSE IF bp = "laptop" THEN Num(4) ELSE Undefined]}

InitMasonryGrid ==
    /\ pc = "options"
    /\ masonryOptions \in [columns : ColumnsOptions, limit : LimitOptions]
    /\ masonryGenerator = Idle
    /\ styledIndex = Idle
    /\ itemStyles = Idle
    /\ IdleExcept("masonryGrid")

\* masonry(options) returns the generator
Masonry ==
    /\ pc = "options"
    /\ masonryGenerator' = masonry(masonryOptions)
    /\ pc' = "generator"
    /\ UNCHANGED <<masonryOptions, styledIndex, itemStyles, exceptMasonryGrid>>

\* a caller styles one item: getItemStyles({ index })
MasonryGetItemStyles ==
    /\ pc \in {"generator", "styled"}
    /\ \E index \in 0..MaxStyledIndex :
        /\ styledIndex' = index
        /\ itemStyles' = masonryGetItemStyles(masonryGenerator, index)
    /\ pc' = "styled"
    /\ UNCHANGED <<masonryOptions, masonryGenerator, exceptMasonryGrid>>

NextMasonryGrid == Masonry \/ MasonryGetItemStyles

SpecMasonryGrid == InitMasonryGrid /\ [][NextMasonryGrid]_vars

(***************************************************************************)
(* Claims about limit-based hiding, checked under SpecMasonryGrid.          *)
(***************************************************************************)

\* the item of the last getItemStyles call is hidden at the breakpoint: it
\* carries the hidden class of that breakpoint
HiddenAt(bp) == \E k \in 1..Len(itemStyles.className) : itemStyles.className[k] = hiddenClasses[bp]

\* the limit the options give for the breakpoint itself: a bare number is the
\* limit of mobile
LimitGivenAt(bp) ==
    IF isObject(masonryOptions.limit) THEN masonryOptions.limit[bp]
    ELSE IF bp = "mobile" THEN masonryOptions.limit ELSE Undefined

\* C12: no item is hidden at a breakpoint whose limit is -1, nor anywhere when
\* no limit is given; at a breakpoint whose limit is N >= 0 the item is hidden
\* if and only if its index is at least N.
C12_LimitHides ==
    pc = "styled" =>
        /\ masonryOptions.limit = Undefined => \A bp \in BreakpointNames : ~HiddenAt(bp)
        /\ \A bp \in BreakpointNames :
            /\ LimitGivenAt(bp) = Num(-1) => ~HiddenAt(bp)
            /\ (LimitGivenAt(bp).t = "number" /\ LimitGivenAt(bp).n >= 0) =>
                    (HiddenAt(bp) <=> styledIndex >= LimitGivenAt(bp).n)

\* C12 witness: with the limit of the README item 3 is styled: hidden at
\* mobile (limit 3), shown at tablet (limit 6) and at desktop (limit -1).
C12_Witness ==
    /\ pc = "styled"
    /\ masonryOptions.limit = ReadmeLimit
    /\ styledIndex = 3
    /\ HiddenAt("mobile")
    /\ ~HiddenAt("tablet")
    /\ ~HiddenAt("desktop")

\* the breakpoints up to and including bp for which the options give a limit
LimitGivenUpTo(bp) ==
    {i \in 0..indexOf(bp) : LimitGivenAt(breakpoints[i + 1]) # Undefined}

\* the limit in force at a breakpoint when a limit given for one breakpoint
\* applies to every larger breakpoint that does not override it
LimitInForceAt(bp) ==
    IF LimitGivenUpTo(bp) = {} THEN Undefined
    ELSE LimitGivenAt(breakpoints[Largest(LimitGivenUpTo(bp)) + 1])

\* C13: a limit given for one breakpoint, or as a bare number, applies to
\* every equal-or-larger breakpoint that does not override it: the item is
\* hidden at a breakpoint if and only if the limit in force there is some
\* N >= 0 and the item's index is at least N.
C13_LimitReachesLargerTiers ==
    pc = "styled" =>
        \A bp \in BreakpointNames :
            HiddenAt(bp) <=>
                /\ LimitInForceAt(bp) # Undefined
                /\ LimitInForceAt(bp).n >= 0
                /\ styledIndex >= LimitInForceAt(bp).n

(***************************************************************************)
(* The item style synthesizer of a grid with per-breakpoint patterns.  The  *)
(* generator that composes parseMultiRowPattern, inferColumnCount and       *)
(* getItemSpans is not among the sources, so its composition follows        *)
(* section 4.5 of the specification; the parser, the column inference and   *)
(* the cycle resolver it calls are the ones modelled above.                 *)
(***************************************************************************)
HiddenMarker == Str(<<"_">>)

RECURSIVE GCD(_, _)
GCD(x, y) == IF y = 0 THEN x ELSE GCD(y, x % y)

\* (spanLength / columns) * 100 as a fraction in lowest terms; NaN when either
\* operand is not a positive number
percentageOf(spanLength, columnsOfBreakpoint) ==
    IF spanLength.t = "number" /\ columnsOfBreakpoint.t = "number"
        /\ spanLength.n > 0 /\ columnsOfBreakpoint.n > 0
    THEN LET d == GCD(spanLength.n * 100, columnsOfBreakpoint.n)
         IN  [numerator |-> (spanLength.n * 100) \div d,
              denominator |-> columnsOfBreakpoint.n \div d]
    ELSE NaN

\* per breakpoint that has a pattern: the parsed pattern and its column count
patternDataOf(patternByBreakpoint) ==
    [bp \in BreakpointNames |->
        IF patternByBreakpoint[bp] = Undefined THEN Undefined
        ELSE LET parsed == parseMultiRowPattern(patternByBreakpoint[bp])
             IN  [t |-> "patternData", parsed |-> parsed, columns |-> inferColumnCount(parsed)]]

\* the largest breakpoint up to bp that has pattern data, 0-based; -1 if none
lastResolved(data, bp) ==
    LET resolved == {i \in 0..indexOf(bp) : data[breakpoints[i + 1]] # Undefined}
    IN  IF resolved = {} THEN -1 ELSE CHOOSE i \in resolved : \A j \in resolved : j <= i

\* span === hiddenMarker
hiddenOf(spans) == spans # Undefined /\ spans.col = HiddenMarker

synthesize(index, data, mirrorPolicy) ==
    LET spansAt(bp) ==
            IF data[bp] = Undefined THEN Undefined
            ELSE getItemSpans(index, data[bp].columns, data[bp].parsed, mirrorPolicy)
        spans == [bp \in BreakpointNames |-> spansAt(bp)]
        cols == [bp \in BreakpointNames |->
                    IF spans[bp] = Undefined THEN Undefined ELSE spans[bp].col]
        rows == [bp \in BreakpointNames |->
                    IF spans[bp] = Undefined THEN Undefined ELSE spans[bp].row]
        widthAt(bp) ==
            LET i == lastResolved(data, bp)
            IN  IF i < 0 THEN Undefined
                ELSE IF hiddenOf(spans[breakpoints[i + 1]]) THEN Undefined
                ELSE percentageOf(getSpanLength(cols[breakpoints[i + 1]]),
                                  data[breakpoints[i + 1]].columns)
    IN  [colSpans |-> removeRedundantBreakpoints(cols, TRUE),
         rowSpans |-> removeRedundantBreakpoints(rows, TRUE),
         hidden |-> [bp \in BreakpointNames |-> hiddenOf(spans[bp])],
         widthPercentages |-> [bp \in BreakpointNames |-> widthAt(bp)]]

\* ["2:1", "_", "1/3"], the mixed pattern of the README
ReadmeMixedPattern ==
    Arr(<<Str(<<"2", ":", "1">>), HiddenMarker, explicitSpanOf(Num(1), Num(3))>>)

\* the patterns a breakpoint can have in this specification (Undefined: none)
BreakpointPatterns ==
    {Undefined, Arr(<<HiddenMarker>>), Arr(<<Num(2)>>), Arr(<<Num(1), HiddenMarker>>),
     Arr(<<Num(2), Num(2)>>), ReadmeMixedPattern}

\* patterns for mobile, tabletWide and desktop
PatternsByBreakpoint ==
    {[bp \in BreakpointNames |->
        IF bp = "mobile" THEN m ELSE IF bp = "tabletWide" THEN w
        ELSE IF bp = "desktop" THEN d ELSE Undefined] :
            m \in BreakpointPatterns, w \in BreakpointPatterns, d \in BreakpointPatterns}

InitSynthesizer ==
    /\ pc = "options"
    /\ synthOptions \in [pattern : PatternsByBreakpoint, mirror : Mirrors]
    /\ patternData = Idle
    /\ synthIndex = Idle
    /\ synthesized = Idle
    /\ IdleExcept("synthesizer")

\* the generator is built: every breakpoint's pattern is parsed
ResolvePatterns ==
    /\ pc = "options"
    /\ patternData' = patternDataOf(synthOptions.pattern)
    /\ pc' = "generator"
    /\ UNCHANGED <<synthOptions, synthIndex, synthesized, exceptSynthesizer>>

\* one item is styled
Synthesize ==
    /\ pc \in {"generator", "synthesized"}
    /\ \E index \in 0..MaxStyledIndex :
        /\ synthIndex' = index
        /\ synthesized' = synthesize(index, patternData, synthOptions.mirror)
    /\ pc' = "synthesized"
    /\ UNCHANGED <<synthOptions, patternData, exceptSynthesizer>>

NextSynthesizer == ResolvePatterns \/ Synthesize

SpecSynthesizer == InitSynthesizer /\ [][NextSynthesizer]_vars

(***************************************************************************)
(* Claims about the hidden marker, checked under SpecSynthesizer.           *)
(***************************************************************************)

\* the token of a flat pattern that governs the item: the tokens repeat cycle
\* after cycle, reversed in the cycles the mirror policy reverses
GoverningToken(p, mirrorOption, itemIndex) ==
    LET cycle == itemIndex \div Len(p.a)
        position == itemIndex % Len(p.a)
        mirrored == \/ mirrorOption = "even" /\ cycle % 2 = 1
                    \/ mirrorOption = "odd" /\ cycle % 2 = 0
    IN  IF mirrored THEN p.a[Len(p.a) - position] ELSE p.a[position + 1]

ShorthandAlphabet == {"1", "3", "6", "-", "/", ":"}

RECURSIVE StringsOfLength(_, _)
StringsOfLength(alphabet, n) ==
    IF n = 0 THEN {<<>>}
    ELSE {<<c>> \o t : c \in alphabet, t \in StringsOfLength(alphabet, n - 1)}

\* "1-3-6-10", the shorthand of the README
ReadmeShorthandText == <<"1", "-", "3", "-", "6", "-", "1", "0">>

ShorthandTexts ==
    UNION {StringsOfLength(ShorthandAlphabet, n) : n \in 0..MaxShorthandLength}
        \cup {ReadmeShorthandText}

InitShorthand ==
    /\ pc = "text"
    /\ shorthandText \in ShorthandTexts
    /\ isShorthand = Idle
    /\ expandedSpans = Idle
    /\ IdleExcept("shorthand")

\* maybeResolveShorthandSyntax(text): the array of explicit spans for a
\* shorthand string, the string itself otherwise
ResolveShorthand ==
    /\ pc = "text"
    /\ isShorthand' = isShorthandExplicitSyntax(Str(shorthandText))
    /\ expandedSpans' =
            IF isShorthandExplicitSyntax(Str(shorthandText))
            THEN Arr(maybeResolveShorthandSyntax(Str(shorthandText)))
            ELSE Str(shorthandText)
    /\ pc' = "resolved"
    /\ UNCHANGED <<shorthandText, exceptShorthand>>

NextShorthand == ResolveShorthand

SpecShorthand == InitShorthand /\ [][NextShorthand]_vars

(***************************************************************************)
(* Claims about the shorthand syntax, checked under SpecShorthand.          *)
(***************************************************************************)

\* the positions of the dashes of a string
DashesOf(chars) == {k \in 1..Len(chars) : chars[k] = "-"}

\* the position of the n-th dash; 0 for n = 0 and Len + 1 past the last dash
DashAt(chars, n) ==
    IF n = 0 THEN 0
    ELSE IF n > Cardinality(DashesOf(chars)) THEN Len(chars) + 1
    ELSE CHOOSE k \in DashesOf(chars) : Cardinality({j \in DashesOf(chars) : j < k}) = n - 1

\* the n-th dash-separated part of a string, n = 1 .. number of dashes + 1
DashPart(chars, n) == SubSeq(chars, DashAt(chars, n - 1) + 1, DashAt(chars, n) - 1)

\* a string of N >= 2 dash-separated integers
IsDashSeparatedIntegers(chars) ==
    /\ DashesOf(chars) # {}
    /\ \A n \in 1..(Cardinality(DashesOf(chars)) + 1) :
            /\ DashPart(chars, n) # <<>>
            /\ \A k \in 1..Len(DashPart(chars, n)) : IsDigit(DashPart(chars, n)[k])

\* C15: a string is shorthand-explicit exactly when it contains "-", contains
\* neither "/" nor ":" and does not start with "-"; a shorthand of N >= 2
\* dash-separated integers p1..pN expands to exactly N - 1 explicit spans, the
\* i-th being "p_i/p_(i+1)".
C15_ShorthandSyntax ==
    pc = "resolved" =>
        /\ isShorthand <=>
                /\ \E k \in 1..Len(shorthandText) : shorthandText[k] = "-"
                /\ \A k \in 1..Len(shorthandText) : shorthandText[k] \notin {"/", ":"}
                /\ shorthandText[1] # "-"
        /\ IsDashSeparatedIntegers(shorthandText) =>
                /\ isShorthand
                /\ Len(expandedSpans.a) = Cardinality(DashesOf(shorthandText))
                /\ \A i \in 1..Len(expandedSpans.a) :
                        expandedSpans.a[i] =
                            Str(DashPart(shorthandText, i) \o <<"/">>
                                    \o DashPart(shorthandText, i + 1))

\* C15 witness: "1-3-6" has been expanded to ["1/3", "3/6"].
C15_Witness ==
    /\ pc = "resolved"
    /\ shorthandText = <<"1", "-", "3", "-", "6">>
    /\ isShorthand
    /\ expandedSpans = Arr(<<Str(<<"1", "/", "3">>), Str(<<"3", "/", "6">>)>>)

(***************************************************************************)
(* Further claims about the pattern grammar, checked under SpecPattern.     *)
(***************************************************************************)

\* C16: parsing a bare shorthand string of N >= 2 dash-separated integers
\* yields one row that holds the N - 1 expanded explicit column spans, each
\* with row span 1 ("1-3-6-10": "1/3", "3/6", "6/10").
C16_BareShorthandIsExpanded ==
    (Parsed /\ pattern.t = "string" /\ IsDashSeparatedIntegers(pattern.s)) =>
        parsedPattern =
            <<Arr([i \in 1..Cardinality(DashesOf(pattern.s)) |->
                [col |-> Str(DashPart(pattern.s, i) \o <<"/">> \o DashPart(pattern.s, i + 1)),
                 row |-> Num(1)]])>>

\* C17: whatever pattern is built from numbers, strings and arrays of them,
\* parsing it, inferring its column count and resolving the spans of an item
\* never throws: the pipeline always ends with a value.
C17_PipelineNeverThrows == pc # "thrown"

(***************************************************************************)
(* grid() of grid.ts: the generator and its getItemStyles, with the         *)
(* filters.spanValues hook. The options always name the pattern direction   *)
(* and give mirror as a bare value, which asBreakpointObject and            *)
(* fillMissingBreakpoints copy to every breakpoint. The patterns given at   *)
(* different breakpoints differ, as distinct array literals do under !==.   *)
(* gap and rowHeight, which getItemStyles never reads, are left out. The    *)
(* style of an item is kept as the two maps from breakpoint to value that   *)
(* getResponsiveCSSVariables turns into --r-span.. and --c-span.. entries.  *)
(***************************************************************************)
rowSpanClasses ==
    [mobile |-> "row-[--r-span]", tablet |-> "sm:row-[--r-span-sm]",
     tabletWide |-> "md:row-[--r-span-md]", laptop |-> "lg:row-[--r-span-lg]",
     desktop |-> "xl:row-[--r-span-xl]", desktopWide |-> "2xl:row-[--r-span-2xl]"]

colSpanClasses ==
    [mobile |-> "col-[--c-span]", tablet |-> "sm:col-[--c-span-sm]",
     tabletWide |-> "md:col-[--c-span-md]", laptop |-> "lg:col-[--c-span-lg]",
     desktop |-> "xl:col-[--c-span-xl]", desktopWide |-> "2xl:col-[--c-span-2xl]"]

\* `span ${span}` for a number, the string itself otherwise
getSpanValue(span) ==
    IF isNumber(span) THEN Str(<<"s", "p", "a", "n", " ">> \o toString(span)) ELSE span

\* `${value}` of a sum that has Infinity as one operand
textOfSum(operandsAreNumbers) ==
    IF operandsAreNumbers THEN <<"I", "n", "f", "i", "n", "i", "t", "y">> ELSE <<"N", "a", "N">>

\* adjustExplicitSpanForNextRow of helpers.ts; previousRowEnd is a number, NaN or Infinity
adjustExplicitSpanForNextRow(explicitSpan, previousRowEnd) ==
    IF isNumber(explicitSpan) THEN explicitSpan
    ELSE LET numbers == splitNumbers(explicitSpan.s, "/")
             start == elementAt(numbers, 0)
             end == elementAt(numbers, 1)
             spanLength == minus(end, start)
             adjustedStart == minus(plus(start, previousRowEnd), Num(1))
             adjustedEnd == plus(adjustedStart, spanLength)
         IN  IF previousRowEnd = Infinity
             THEN Str(textOfSum(toNumber(start).t = "number") \o <<"/">>
                        \o textOfSum(toNumber(start).t = "number" /\ spanLength.t = "number"))
             ELSE explicitSpanOf(adjustedStart, adjustedEnd)

\* spans.reduce((max, span) => Math.max(max, end of span), 0) over the first k spans
RECURSIVE lastRowNumberOf(_, _)
lastRowNumberOf(spans, k) ==
    IF k = 0 THEN Num(0)
    ELSE mathMax(lastRowNumberOf(spans, k - 1), elementAt(splitNumbers(spans[k].s, "/"), 1))

NoHook == "none"

\* the value the pattern option has when it is absent: options.spanPattern ?? [1]
defaultSpanPattern == Arr(<<Num(1)>>)

\* what grid(options) computes before it returns the generator
generatorOf(opts, patternObjects) ==
    [patternDirection |-> opts.patternDirection,
     totalItems |-> opts.totalItems,
     balance |-> opts.balance,
     filters |-> opts.filters,
     patternObjects |-> patternObjects,
     columns |->
        IF opts.patternDirection = "vertical"
        THEN asBreakpointObject(nullish(opts.columns, defaultColumns), TRUE)
        ELSE [bp \in BreakpointNames |->
                IF patternObjects[bp] # Null THEN patternObjects[bp].implicitColumns
                ELSE asBreakpointObject(defaultSpanPattern, TRUE)[bp]]]

\* patternObjects: per breakpoint of the pruned spanPattern, null where it has no pattern
patternObjectsOf(opts, spanPattern) ==
    [bp \in BreakpointNames |->
        IF nullish(spanPattern[bp], Null) = Null \/ spanPattern[bp] = EmptyString THEN Null
        ELSE getPatternObject(spanPattern[bp], opts.patternDirection, opts.mirror)]

grid(opts) ==
    generatorOf(opts,
                patternObjectsOf(opts, asBreakpointObject(nullish(opts.spanPattern,
                                                                  defaultSpanPattern), TRUE)))

\* rowIndex * lastRowNumber; a null column count divides by 0
previousRowEndOf(index, columnsAt, lastRowNumber) ==
    IF lastRowNumber.t # "number" THEN NaN
    ELSE IF columnsAt = Null
    THEN (IF lastRowNumber.n = 0 THEN NaN ELSE Infinity)
    ELSE Num((index \div columnsAt.n) * lastRowNumber.n)

\* the adjustment of the span of a vertical pattern; Math.floor(index / columns) > 0
\* is index > 0 for a null column count
spanInRow(object, index, columnsAt, isVertical, span) ==
    IF isVertical /\ object.isExplicit
        /\ (IF columnsAt = Null THEN index > 0 ELSE index \div columnsAt.n > 0)
    THEN adjustExplicitSpanForNextRow(
            span,
            previousRowEndOf(index, columnsAt,
                             lastRowNumberOf(object.spans, Len(object.spans))))
    ELSE span

\* the span the reduce of getItemStyles computes for one pattern object
spanOfItem(generator, bp, index) ==
    spanInRow(generator.patternObjects[bp], index, nullish(generator.columns[bp], Null),
              generator.patternDirection = "vertical",
              IF generator.patternDirection = "vertical"
                    /\ index = generator.totalItems - 1 /\ generator.balance
              THEN generator.patternObjects[bp].minSpanLength
              ELSE getItemSpanValue(generator.patternObjects[bp], index))

\* acc.row[breakpoint] and acc.col[breakpoint]: the span in the direction of the
\* pattern, 1 in the other
spansByDirection(generator, spans) ==
    [row |-> [bp \in BreakpointNames |->
                IF generator.patternObjects[bp] = Null THEN Undefined
                ELSE IF generator.patternDirection = "vertical" THEN spans[bp] ELSE Num(1)],
     col |-> [bp \in BreakpointNames |->
                IF generator.patternObjects[bp] = Null THEN Undefined
                ELSE IF generator.patternDirection = "horizontal" THEN spans[bp] ELSE Num(1)]]

\* responsiveSpans of getItemStyles: an entry for every breakpoint with a pattern object
responsiveSpansOf(generator, index) ==
    spansByDirection(generator,
                     [bp \in BreakpointNames |->
                        IF generator.patternObjects[bp] = Null THEN Undefined
                        ELSE spanOfItem(generator, bp, index)])

\* the add helper handed to the hook: (span = 1, spanLength = 1) => ...
add(span, spanLength) ==
    LET given == IF span = Undefined THEN Num(1) ELSE span
    IN  IF isNumber(given) THEN plus(given, spanLength)
        ELSE LET numbers == splitNumbers(given.s, "/")
             IN  explicitSpanOf(elementAt(numbers, 0), plus(elementAt(numbers, 1), spanLength))

\* { col: { mobile: 2, desktop: "1/3" }, row: { mobile: 1, tablet: 2 } }
ConstantSpans ==
    [col |-> [bp \in BreakpointNames |->
                IF bp = "mobile" THEN Num(2)
                ELSE IF bp = "desktop" THEN explicitSpanOf(Num(1), Num(3)) ELSE Undefined],
     row |-> [bp \in BreakpointNames |->
                IF bp = "mobile" THEN Num(1)
                ELSE IF bp = "tablet" THEN Num(2) ELSE Undefined]]

\* the hooks of the model: one that returns the spans it is given, the hook of
\* the README (the first item gets one more column on desktop) and one that
\* returns the same spans whatever it is given
Hooks == {"identity", "readmeHero", "constant"}

spanValues(hook, itemIndex, spans) ==
    IF hook = "constant" THEN ConstantSpans
    ELSE IF hook = "readmeHero" /\ itemIndex = 0
    THEN [col |-> [spans.col EXCEPT
                    !["desktop"] = add(nullish(spans.col["desktop"], Num(1)), Num(1))],
          row |-> spans.row]
    ELSE spans

\* a plausible slip: the hook's spans are merged over the pattern's instead of replacing them
overrideSpansMerged(patternSpans, filteredSpans) ==
    [bp \in BreakpointNames |->
        IF asBreakpointObject(filteredSpans, TRUE)[bp] # Undefined
        THEN asBreakpointObject(filteredSpans, TRUE)[bp] ELSE patternSpans[bp]]

\* rowSpan = asBreakpointObject(filteredSpans.row), and the same for colSpan
overrideSpans(patternSpans, filteredSpans) == asBreakpointObject(filteredSpans, TRUE)

\* getSpanValues of getItemStyles followed by getResponsiveCSSVariables
spanVariables(span) ==
    [bp \in BreakpointNames |->
        IF span[bp] = Undefined \/ span[bp] = Num(1) THEN Undefined ELSE getSpanValue(span[bp])]

\* getItemStyles({ index }) of the generator
isEmptyObject(variables) == \A bp \in BreakpointNames : variables[bp] = Undefined

\* the classes and the style returned for the final rowSpan and colSpan
stylesOfVariables(rowSpan, colSpan, rowSpanVars, colSpanVars) ==
    [className |->
        (IF isEmptyObject(rowSpanVars) THEN <<>>
         ELSE getResponsiveClassNames(rowSpanClasses, rowSpan))
        \o (IF isEmptyObject(colSpanVars) THEN <<>>
            ELSE getResponsiveClassNames(colSpanClasses, colSpan)),
     style |-> [rowSpanVars |-> rowSpanVars, colSpanVars |-> colSpanVars]]

stylesOfSpans(rowSpan, colSpan) ==
    stylesOfVariables(rowSpan, colSpan, spanVariables(rowSpan), spanVariables(colSpan))

\* the hook, when there is one, decides rowSpan and colSpan
stylesOfFiltered(hasHook, prunedRow, prunedCol, filteredSpans) ==
    IF hasHook
    THEN stylesOfSpans(overrideSpans(prunedRow, filteredSpans.row),
                       overrideSpans(prunedCol, filteredSpans.col))
    ELSE stylesOfSpans(prunedRow, prunedCol)

stylesOfResponsiveSpans(filters, index, responsiveSpans) ==
    stylesOfFiltered(filters # NoHook,
                     removeRedundantBreakpoints(responsiveSpans.row, TRUE),
                     removeRedundantBreakpoints(responsiveSpans.col, TRUE),
                     spanValues(filters, index, responsiveSpans))

gridGetItemStyles(generator, index) ==
    stylesOfResponsiveSpans(generator.filters, index, responsiveSpansOf(generator, index))

\* a plausible slip: the pattern is reversed in place, not on a copy, when a
\* mirrored repetition is read
generatorAfterInPlaceReverse(generator, index) ==
    [generator EXCEPT !.patternObjects =
        [bp \in BreakpointNames |->
            LET object == generator.patternObjects[bp]
            IN  IF object = Null THEN Null
                ELSE IF object.mirror # MirrorOff
                        /\ (index \div Len(object.spans)) % 2
                                = (IF object.mirror = "even" THEN 0 ELSE 1)
                THEN [object EXCEPT !.spans = reverse(object.spans),
                                    !.spanLengths = reverse(object.spanLengths)]
                ELSE object]]

\* what a getItemStyles call leaves in the closure: the reduce starts from a
\* fresh accumulator and getReversedSpanPattern reverses copies
generatorAfterGetItemStyles(generator, index) == generator

\* the totalItems option of the grids of the model: item 2 is the last item
TotalItems == 3

\* [1, 1, 1, 1], the pattern of the README's hook example
ReadmeHookPattern == Arr(<<Num(1), Num(1), Num(1), Num(1)>>)

\* { mobile: [1, 2], desktop: [2, 1, 1] }
ImplicitByBreakpoint ==
    [bp \in BreakpointNames |->
        IF bp = "mobile" THEN Arr(<<Num(1), Num(2)>>)
        ELSE IF bp = "desktop" THEN Arr(<<Num(2), Num(1), Num(1)>>) ELSE Undefined]

\* { mobile: ["1/3", "3/4"], tablet: [2] }
ExplicitByBreakpoint ==
    [bp \in BreakpointNames |->
        IF bp = "mobile"
        THEN Arr(<<explicitSpanOf(Num(1), Num(3)), explicitSpanOf(Num(3), Num(4))>>)
        ELSE IF bp = "tablet" THEN Arr(<<Num(2)>>) ELSE Undefined]

GridSpanPatterns ==
    {Undefined, ReadmeHookPattern, Arr(<<Num(2), Num(1)>>), ReadmeShorthandPattern,
     ImplicitByBreakpoint, ExplicitByBreakpoint}

GridOptionsSet ==
    [spanPattern : GridSpanPatterns,
     patternDirection : PatternDirections,
     mirror : Mirrors,
     columns : {Undefined, Num(2)},
     totalItems : {TotalItems},
     balance : BOOLEAN,
     filters : {NoHook} \cup Hooks]

InitGrid ==
    /\ pc = "gridOptions"
    /\ gridOptions \in GridOptionsSet
    /\ gridGenerator = Idle
    /\ gridIndex = Idle
    /\ hookArgument = Idle
    /\ gridItemStyles = Idle
    /\ gridCalls = 0
    /\ IdleExcept("grid")

\* grid(options) returns the generator
Grid ==
    /\ pc = "gridOptions"
    /\ gridGenerator' = grid(gridOptions)
    /\ pc' = "generator"
    /\ UNCHANGED <<gridOptions, gridIndex, hookArgument, gridItemStyles, gridCalls, exceptGrid>>

\* one more call of getItemStyles on the generator, for any index
GridGetItemStyles ==
    /\ pc \in {"generator", "styled"}
    /\ gridCalls < MaxGridCalls
    /\ \E index \in 0..MaxGridIndex :
        /\ gridIndex' = index
        /\ hookArgument' = IF gridGenerator.filters = NoHook THEN Idle
                           ELSE responsiveSpansOf(gridGenerator, index)
        /\ gridItemStyles' = gridGetItemStyles(gridGenerator, index)
        /\ gridGenerator' = generatorAfterGetItemStyles(gridGenerator, index)
    /\ gridCalls' = gridCalls + 1
    /\ pc' = "styled"
    /\ UNCHANGED <<gridOptions, exceptGrid>>

NextGrid == Grid \/ GridGetItemStyles

SpecGrid == InitGrid /\ [][NextGrid]_vars

(***************************************************************************)
(* Claims about the grid generator, checked under SpecGrid.                 *)
(***************************************************************************)

HasPatternAt(bp) ==
    IF isObject(gridOptions.spanPattern) THEN gridOptions.spanPattern[bp] # Undefined
    ELSE bp = "mobile"

\* what the hook of the options returns for the spans it was called with
HookReturn == spanValues(gridOptions.filters, gridIndex, hookArgument)

\* the span values emitted for a map of spans: per breakpoint, the text of the
\* span, unless it is absent, 1, or (in a map of several breakpoints) the
\* value of the breakpoint just below
EmittedFrom(spans) ==
    [bp \in BreakpointNames |->
        LET value == spans[bp]
            below == IF indexOf(bp) > 0 THEN spans[breakpoints[indexOf(bp)]] ELSE Undefined
            several == Cardinality({b \in BreakpointNames : spans[b] # Undefined}) # 1
        IN  IF value = Undefined \/ value = Num(1) \/ (several /\ below = value)
            THEN Undefined
            ELSE IF value.t = "number"
            THEN Str(<<"s", "p", "a", "n", " ">> \o NatToString(value.n))
            ELSE value]

\* C19: a supplied filters.spanValues hook is called with the complete
\* per-breakpoint col and row span maps (an entry for every breakpoint that has
\* a pattern, 1 in the direction the pattern does not run in), and the emitted
\* spans are those of the hook's return value alone: a hook that returns the
\* same maps for every grid makes every grid emit the same span values.
C19_HookOutputReplacesSpans ==
    (pc = "styled" /\ gridOptions.filters # NoHook) =>
        /\ \A bp \in BreakpointNames :
            /\ (hookArgument.col[bp] # Undefined) = HasPatternAt(bp)
            /\ (hookArgument.row[bp] # Undefined) = HasPatternAt(bp)
            /\ (HasPatternAt(bp) /\ gridOptions.patternDirection = "horizontal") =>
                    hookArgument.row[bp] = Num(1)
            /\ (HasPatternAt(bp) /\ gridOptions.patternDirection = "vertical") =>
                    hookArgument.col[bp] = Num(1)
        /\ gridItemStyles.style.colSpanVars = EmittedFrom(HookReturn.col)
        /\ gridItemStyles.style.rowSpanVars = EmittedFrom(HookReturn.row)
        /\ gridOptions.filters = "constant" =>
            /\ gridItemStyles.style.colSpanVars =
                [bp \in BreakpointNames |->
                    IF bp = "mobile" THEN Str(<<"s", "p", "a", "n", " ", "2">>)
                    ELSE IF bp = "desktop" THEN Str(<<"1", "/", "3">>) ELSE Undefined]
            /\ gridItemStyles.style.rowSpanVars =
                [bp \in BreakpointNames |->
                    IF bp = "tablet" THEN Str(<<"s", "p", "a", "n", " ", "2">>) ELSE Undefined]

\* C19 witness: a horizontal grid of { mobile: ["1/3", "3/4"], tablet: [2] }
\* whose hook returns the constant spans: the pattern's 2 columns on tablet are
\* not emitted, the hook's "1/3" on desktop is.
C19_Witness ==
    /\ pc = "styled"
    /\ gridOptions.filters = "constant"
    /\ gridOptions.spanPattern = ExplicitByBreakpoint
    /\ gridOptions.patternDirection = "horizontal"
    /\ hookArgument.col["tablet"] = Num(2)
    /\ gridItemStyles.style.colSpanVars["tablet"] = Undefined
    /\ gridItemStyles.style.colSpanVars["desktop"] = Str(<<"1", "/", "3">>)

(***************************************************************************)
(* The cycle of getItemSpans, checked under SpecPattern.                    *)
(***************************************************************************)

\* no span of the pattern gives a row span ("col:row")
HasNoRowSpans(p) ==
    \A k \in 1..Len(RowsOf(p)) : \A j \in 1..Len(RowsOf(p)[k]) :
        ~(RowsOf(p)[k][j].t = "string" /\ \E c \in 1..Len(RowsOf(p)[k][j].s) :
                                              RowsOf(p)[k][j].s[c] = ":")

\* C20: with mirroring off and no explicit row spans, item i of a non-empty
\* pattern gets the entry at position i mod itemsPerCycle of the rows laid end
\* to end, so item i + itemsPerCycle gets the same spans as item i; a pattern
\* without rows gives every item col 1 and row 1.
C20_ItemsCycleThroughRows ==
    /\ (pc = "itemSpans" /\ mirror = MirrorOff /\ pattern.t = "array" /\ HasNoRowSpans(pattern)) =>
        LET entries == CycleSpans(RowsOf(pattern), Len(RowsOf(pattern)), FALSE)
        IN  /\ itemSpans = [col |-> entries[(calledIndex % Len(entries)) + 1], row |-> Num(1)]
            /\ getItemSpans(calledIndex + Len(entries), inferredColumns, parsedPattern, mirror)
                    = itemSpans
    /\ pc = "noRows" => itemSpans = [col |-> Num(1), row |-> Num(1)]

\* C20 witness: item 7 of [[2, 2], [1, 3]] is at position 3 of the second
\* cycle and gets the last entry of the second row.
C20_Witness ==
    /\ pc = "itemSpans"
    /\ mirror = MirrorOff
    /\ pattern = ReadmeMultiRowPattern
    /\ calledIndex = 7
    /\ itemSpans = [col |-> Num(3), row |-> Num(1)]

(***************************************************************************)
(* Claims about mirrored explicit rows, checked under SpecPattern.          *)
(***************************************************************************)

\* a flat array pattern all of whose spans are explicit "start/end" strings
IsAllExplicitFlat(p) ==
    /\ p.t = "array"
    /\ Len(p.a) >= 1
    /\ \A k \in 1..Len(p.a) : IsExplicit(p.a[k])

\* the length of the k-th span of an all-explicit row
LengthAt(spans, k) == EndLine(spans[k]) - StartLine(spans[k])

\* the line at which the j-th span of the mirrored row starts when the reversed
\* lengths are laid out contiguously from line 1: 1 + the lengths of the spans
\* that come after position Len - j + 1 in the original row
RederivedStart(spans, j) ==
    1 + SumOfPairs({<<k, LengthAt(spans, k)>> : k \in (Len(spans) + 2 - j)..Len(spans)})

\* span is the j-th (1-based) contiguous start/end pair of the mirrored row
IsRederived(span, spans, j) ==
    /\ IsExplicit(span)
    /\ StartLine(span) = RederivedStart(spans, j)
    /\ EndLine(span) = RederivedStart(spans, j) + LengthAt(spans, Len(spans) + 1 - j)

\* the cycle of the called item is one that getItemSpans reverses
MirroredByGetItemSpans ==
    /\ mirror # MirrorOff
    /\ (calledIndex \div Len(pattern.a)) % 2 = (IF mirror = "even" THEN 1 ELSE 0)

\* the cycle of the called item is one that getItemSpanValue reverses
MirroredByGetItemSpanValue ==
    /\ mirror # MirrorOff
    /\ (calledIndex \div Len(pattern.a)) % 2 = (IF mirror = "even" THEN 0 ELSE 1)

\* getItemSpans hands out re-derived contiguous spans in its mirrored cycles
RederivedByGetItemSpans ==
    (pc = "itemSpans" /\ IsAllExplicitFlat(pattern) /\ MirroredByGetItemSpans) =>
        IsRederived(itemSpans.col, pattern.a, (calledIndex % Len(pattern.a)) + 1)

\* getItemSpanValue hands out re-derived contiguous spans in its mirrored cycles
RederivedByGetItemSpanValue ==
    (/\ pc = "itemSpanValue"
     /\ IsAllExplicitFlat(pattern)
     /\ patternObject.patternDirection = "horizontal"
     /\ MirroredByGetItemSpanValue) =>
        IsRederived(itemSpanValue, pattern.a, (calledIndex % Len(pattern.a)) + 1)

\* C21: in a mirrored cycle of a row of explicit column spans, the resolved
\* spans are contiguous start/end pairs re-derived from the reversed span
\* lengths, starting at line 1 (["1/3","3/6"] gives "1/4" then "4/6"), not the
\* original strings in reversed order.
C21_MirroredExplicitSpansAreRederived ==
    RederivedByGetItemSpans /\ RederivedByGetItemSpanValue

(***************************************************************************)
(* Patterns with col:row tokens, parsed and resolved by the same calls as   *)
(* the patterns above.                                                      *)
(***************************************************************************)

\* the token `${col}:${row}`
colRowOf(col, row) == Str(toString(col) \o <<":">> \o toString(row))

\* ["1:1/3", "2:2/4"]: every entry has an explicit row span
ExplicitRowsPattern ==
    Arr(<<colRowOf(Num(1), explicitSpanOf(Num(1), Num(3))),
          colRowOf(Num(2), explicitSpanOf(Num(2), Num(4)))>>)

\* ["1:1/2", 2]: an explicit row span beside a bare number (row span 1)
ExplicitRowThenNumber ==
    Arr(<<colRowOf(Num(1), explicitSpanOf(Num(1), Num(2))), Num(2)>>)

\* ["2:1/3", "1:2"]: an explicit row span beside an implicit row span of 2
ExplicitRowThenImplicitRow ==
    Arr(<<colRowOf(Num(2), explicitSpanOf(Num(1), Num(3))), colRowOf(Num(1), Num(2))>>)

\* [["1:1/3"], ["1:1/2", "2:3"]]: two rows, three items per cycle
ExplicitRowsNested ==
    Arr(<<Arr(<<colRowOf(Num(1), explicitSpanOf(Num(1), Num(3)))>>),
          Arr(<<colRowOf(Num(1), explicitSpanOf(Num(1), Num(2))), colRowOf(Num(2), Num(3))>>)>>)

\* ["2:1", "1:1"]: col:row tokens whose parts are both implicit
ImplicitColRowPattern == Arr(<<colRowOf(Num(2), Num(1)), colRowOf(Num(1), Num(1))>>)

\* ["1:1", 2, "3:1"]: such tokens beside a bare number
ImplicitColRowThenNumber ==
    Arr(<<colRowOf(Num(1), Num(1)), Num(2), colRowOf(Num(3), Num(1))>>)

ColRowPatterns ==
    {ExplicitRowsPattern, ExplicitRowThenNumber, ExplicitRowThenImplicitRow, ExplicitRowsNested,
     ImplicitColRowPattern, ImplicitColRowThenNumber}

InitColRow ==
    /\ pc = "options"
    /\ pattern \in ColRowPatterns
    /\ mirror \in Mirrors
    /\ parsedPattern = Idle
    /\ inferredColumns = Idle
    /\ patternObject = Idle
    /\ calledIndex = Idle
    /\ itemSpans = Idle
    /\ itemSpanValue = Idle
    /\ BreakpointsIdle
    /\ MasonryIdle
    /\ StringIdle
    /\ GeneratorIdle

NextColRow == ParsePattern \/ GetItemSpans

SpecColRow == InitColRow /\ [][NextColRow]_vars

(***************************************************************************)
(* Claims about explicit row spans across cycles, checked under SpecColRow. *)
(***************************************************************************)

\* the position of the ":" of a col:row token
ColonOf(token) == CHOOSE k \in 1..Len(token.s) : token.s[k] = ":"

IsColRow(token) == token.t = "string" /\ \E k \in 1..Len(token.s) : token.s[k] = ":"

\* the row part of a col:row token, as written
RowPartOf(token) == Str(SubSeq(token.s, ColonOf(token) + 1, Len(token.s)))

\* the token gives an explicit row span "s/e"
HasExplicitRow(token) == IsColRow(token) /\ IsExplicit(RowPartOf(token))

\* the items of one cycle
PerCycle(p) == Len(CycleSpans(RowsOf(p), Len(RowsOf(p)), FALSE))

\* the cycle of an item is one that getItemSpans reverses
IsMirroredCycle(p, mirrorOption, itemIndex) ==
    /\ mirrorOption # MirrorOff
    /\ (itemIndex \div PerCycle(p)) % 2 = (IF mirrorOption = "even" THEN 1 ELSE 0)

\* the token of the user's pattern that governs an item
EntryOf(p, mirrorOption, itemIndex) ==
    CycleSpans(RowsOf(p), Len(RowsOf(p)), IsMirroredCycle(p, mirrorOption, itemIndex))[
        (itemIndex % PerCycle(p)) + 1]

\* the row end an item with these resolved spans reaches: its explicit end, or
\* 1 + its implicit row span
RowEndReached(spans) ==
    IF IsExplicit(spans.row) THEN EndLine(spans.row)
    ELSE IF spans.row.t = "number" THEN 1 + spans.row.n
    ELSE 1 + DecimalValue(spans.row.s)

\* the resolved spans of the same relative item of the preceding cycle
PreviousCycleSpans ==
    getItemSpans(calledIndex - PerCycle(pattern), inferredColumns, parsedPattern, mirror)

\* C22: an item of a cycle k >= 1 whose entry has the explicit row span (s, e),
\* 1 <= s < e, gets the row span (s + E - 1, s + E - 1 + (e - s)), E being the
\* row end reached by the item one cycle earlier; the length is kept, the start
\* is not below E, and in a non-mirrored pattern whose entries all have explicit
\* row spans the start is above that of the item one cycle earlier.
C22_ExplicitRowsContinueAcrossCycles ==
    (/\ pc = "itemSpans"
     /\ calledIndex >= PerCycle(pattern)
     /\ HasExplicitRow(EntryOf(pattern, mirror, calledIndex))) =>
        LET row == RowPartOf(EntryOf(pattern, mirror, calledIndex))
            E == RowEndReached(PreviousCycleSpans)
        IN  (1 <= StartLine(row) /\ StartLine(row) < EndLine(row)) =>
                /\ IsExplicit(itemSpans.row)
                /\ StartLine(itemSpans.row) = StartLine(row) + E - 1
                /\ EndLine(itemSpans.row) = StartLine(row) + E - 1 + (EndLine(row) - StartLine(row))
                /\ EndLine(itemSpans.row) - StartLine(itemSpans.row) = EndLine(row) - StartLine(row)
                /\ StartLine(itemSpans.row) >= E
                /\ (mirror = MirrorOff /\ pattern = ExplicitRowsPattern) =>
                        StartLine(itemSpans.row) > StartLine(PreviousCycleSpans.row)

\* C22 witness: item 4 of ["1:1/3", "2:2/4"] is in cycle 2; the item one cycle
\* earlier ends at line 5, so its row span "1/3" has become "5/7".
C22_Witness ==
    /\ pc = "itemSpans"
    /\ pattern = ExplicitRowsPattern
    /\ mirror = MirrorOff
    /\ calledIndex = 4
    /\ itemSpans.row = explicitSpanOf(Num(5), Num(7))

(***************************************************************************)
(* The recursion of getItemSpans, call by call: callStack holds the index   *)
(* of every call that has not returned, the innermost call last.            *)
(***************************************************************************)

RecursionPatterns == ColRowPatterns \cup {ReadmeMultiRowPattern}

InitRecursion ==
    /\ pc = "options"
    /\ pattern \in RecursionPatterns
    /\ mirror \in Mirrors
    /\ parsedPattern = Idle
    /\ inferredColumns = Idle
    /\ patternObject = Idle
    /\ calledIndex = Idle
    /\ itemSpans = Idle
    /\ itemSpanValue = Idle
    /\ callStack = <<>>
    /\ returnValue = Idle
    /\ BreakpointsIdle
    /\ MasonryIdle
    /\ StringIdle
    /\ MasonryGridIdle
    /\ SynthesizerIdle
    /\ ShorthandIdle
    /\ GridIdle

\* the index argument of the innermost call
currentIndex == callStack[Len(callStack)]

\* the caller of the call that returns: the program, or the call below it
afterReturn == IF Len(callStack) = 1 THEN "returned" ELSE "resumed"

\* what a call returns that makes no recursive call
spansWithoutRecursion(itemIndex, multiRowPattern, mirrorOption) ==
    IF hasNoCycle(multiRowPattern) THEN [col |-> Num(1), row |-> Num(1)]
    ELSE IF adjustsRowAt(itemIndex, multiRowPattern, mirrorOption)
    THEN adjustExplicitSpansForNextRow(entrySpansOf(itemIndex, multiRowPattern, mirrorOption),
                                       Num(patternCycleOf(itemIndex, multiRowPattern) + 1))
    ELSE entrySpansOf(itemIndex, multiRowPattern, mirrorOption)

\* the program calls getItemSpans for an item
CallGetItemSpans ==
    /\ pc \in {"grid", "returned"}
    /\ \E itemIndex \in 0..MaxIndex :
        /\ calledIndex' = itemIndex
        /\ callStack' = <<itemIndex>>
    /\ pc' = "called"
    /\ UNCHANGED <<pattern, mirror, parsedPattern, inferredColumns, patternObject, itemSpans,
                   itemSpanValue, returnValue, exceptPatternAndRecursion>>

\* the innermost call calls getItemSpans for the item one cycle earlier
RecursiveCall ==
    /\ pc = "called"
    /\ recursesAt(currentIndex, parsedPattern, mirror)
    /\ callStack' = Append(callStack, itemIndexInPreviousCycleOf(currentIndex, parsedPattern))
    /\ pc' = "called"
    /\ UNCHANGED <<pattern, mirror, parsedPattern, inferredColumns, patternObject, calledIndex,
                   itemSpans, itemSpanValue, returnValue, exceptPatternAndRecursion>>

\* the innermost call returns without having recursed
ReturnSpans ==
    /\ pc = "called"
    /\ ~recursesAt(currentIndex, parsedPattern, mirror)
    /\ returnValue' = spansWithoutRecursion(currentIndex, parsedPattern, mirror)
    /\ callStack' = SubSeq(callStack, 1, Len(callStack) - 1)
    /\ pc' = afterReturn
    /\ UNCHANGED <<pattern, mirror, parsedPattern, inferredColumns, patternObject, calledIndex,
                   itemSpans, itemSpanValue, exceptPatternAndRecursion>>

\* a call whose recursive call has returned adjusts its row span and returns
ReturnAdjustedSpans ==
    /\ pc = "resumed"
    /\ returnValue' = adjustExplicitSpansForNextRow(
                        entrySpansOf(currentIndex, parsedPattern, mirror), rowEndOf(returnValue))
    /\ callStack' = SubSeq(callStack, 1, Len(callStack) - 1)
    /\ pc' = afterReturn
    /\ UNCHANGED <<pattern, mirror, parsedPattern, inferredColumns, patternObject, calledIndex,
                   itemSpans, itemSpanValue, exceptPatternAndRecursion>>

NextRecursion ==
    ParsePattern \/ CallGetItemSpans \/ RecursiveCall \/ ReturnSpans \/ ReturnAdjustedSpans

\* a step of a call in progress: the call stack grows by a call or shrinks by a return
CallProgresses ==
    /\ pc \in {"called", "resumed"}
    /\ pc' \in {"called", "resumed", "returned"}
    /\ callStack' \in {SubSeq(callStack, 1, Len(callStack) - 1)}
                        \cup {Append(callStack, itemIndex) : itemIndex \in 0..MaxIndex}

\* JavaScript runs a call to completion: a call in progress keeps taking the steps
\* NextRecursion allows it
SpecRecursion == InitRecursion /\ [][NextRecursion]_vars /\ WF_callStack(CallProgresses)

(***************************************************************************)
(* Termination of getItemSpans, checked under SpecRecursion.                *)
(***************************************************************************)

\* the call by call result is the one of the recursive definition
ReturnsGetItemSpans ==
    pc = "returned" =>
        returnValue = getItemSpans(calledIndex, inferredColumns, parsedPattern, mirror)

\* every recursive call in progress was made with the index one cycle earlier,
\* which is smaller and not negative; a call of cycle 0 has made none; the
\* calls in progress below the innermost are at most the cycle number of the item
CallsDescend ==
    pc \in {"called", "resumed"} =>
        /\ callStack[1] = calledIndex
        /\ \A k \in 2..Len(callStack) :
                /\ callStack[k] = callStack[k - 1] - PerCycle(pattern)
                /\ callStack[k] < callStack[k - 1]
                /\ callStack[k] >= 0
        /\ \A k \in 1..Len(callStack) : callStack[k] < PerCycle(pattern) => k = Len(callStack)
        /\ Len(callStack) - 1 <= calledIndex \div PerCycle(pattern)

\* C23: getItemSpans terminates for every index, pattern and mirror policy:
\* each recursive call gets the index minus the items per cycle, strictly
\* smaller and not negative, no call in cycle 0 recurses, the recursion depth is
\* at most the item's cycle number, and every call returns.
C23_GetItemSpansTerminates ==
    /\ []CallsDescend
    /\ (pc = "called") ~> (pc = "returned")

\* C23 witness: the call for item 4 of ["1:1/3", "2:2/4"] (cycle 2) has called
\* for item 2, which has called for item 0: depth 2.
C23_Witness ==
    /\ pc = "called"
    /\ pattern = ExplicitRowsPattern
    /\ mirror = MirrorOff
    /\ callStack = <<4, 2, 0>>

(***************************************************************************)
(* Normalization of rows that mix implicit and explicit spans, checked      *)
(* under SpecPattern.                                                       *)
(***************************************************************************)

\* a row with at least one implicit (number) and one explicit ("start/end") span
IsMixedRow(row) ==
    /\ \E k \in 1..Len(row) : row[k].t = "number"
    /\ \E k \in 1..Len(row) : IsExplicit(row[k])

\* the row of the user's pattern that governs an item (1-based)
RowNumberOf(p, itemIndex) ==
    Least({k \in 1..Len(RowsOf(p)) :
            itemIndex % PerCycle(p) < Len(CycleSpans(RowsOf(p), k, FALSE))})

\* the explicit form the claim gives a span: "1/(N+1)" for the implicit span N
NormalizedSpan(span) ==
    IF span.t = "number" THEN explicitSpanOf(Num(1), Num(span.n + 1)) ELSE span

\* getPatternObject normalizes a mixed pattern, and getItemSpanValue returns explicit spans
NormalizedByGetPatternObject ==
    (HasPatternObject /\ pattern.t = "array" /\ IsMixedRow(pattern.a)) =>
        /\ patternObject.spans = [k \in 1..Len(pattern.a) |-> NormalizedSpan(pattern.a[k])]
        /\ pc = "itemSpanValue" => IsExplicit(itemSpanValue)

\* parseMultiRowPattern normalizes a mixed row, and getItemSpans returns explicit spans
NormalizedByParseMultiRowPattern ==
    (pc = "itemSpans" /\ pattern.t = "array"
        /\ IsMixedRow(RowsOf(pattern)[RowNumberOf(pattern, calledIndex)])) =>
        /\ \A k \in 1..Len(RowsOf(pattern)[RowNumberOf(pattern, calledIndex)]) :
                parsedPattern[RowNumberOf(pattern, calledIndex)].a[k].col
                    = NormalizedSpan(RowsOf(pattern)[RowNumberOf(pattern, calledIndex)][k])
        /\ IsExplicit(itemSpans.col)

\* C24: when a row mixes implicit and explicit spans, every implicit span N is
\* normalized to "1/(N+1)" before item spans are resolved, and every span
\* returned for an item of the row is in explicit start/end form.
C24_MixedRowsAreNormalized ==
    NormalizedByGetPatternObject /\ NormalizedByParseMultiRowPattern

(***************************************************************************)
(* Column inference for patterns with spans that end at -1.                 *)
(***************************************************************************)

InitOpenEnded ==
    /\ pc = "options"
    /\ pattern \in OpenEndedPatterns
    /\ mirror \in Mirrors
    /\ parsedPattern = Idle
    /\ inferredColumns = Idle
    /\ patternObject = Idle
    /\ calledIndex = Idle
    /\ itemSpans = Idle
    /\ itemSpanValue = Idle
    /\ BreakpointsIdle
    /\ MasonryIdle
    /\ StringIdle
    /\ GeneratorIdle

NextOpenEnded == ParsePattern \/ GetPatternObject

SpecOpenEnded == InitOpenEnded /\ [][NextOpenEnded]_vars

\* the span is "start/-1"
IsOpenEnded(span) ==
    /\ span.t = "string"
    /\ Len(span.s) >= 3
    /\ SubSeq(span.s, Len(span.s) - 2, Len(span.s)) = <<"/", "-", "1">>

IsResolvable(span) == ~IsOpenEnded(span)

\* the pattern with its end = -1 spans removed
WithoutOpenEnded(p) == Arr(SelectSeq(p.a, IsResolvable))

HasResolvableSpan(p) == \E k \in 1..Len(p.a) : IsResolvable(p.a[k])

\* the length of every end = -1 span of the pattern is null, in both implementations
OpenEndedLengthIsNull ==
    pc # "options" =>
        \A k \in 1..Len(pattern.a) :
            IsOpenEnded(pattern.a[k]) =>
                /\ getSpanLength(pattern.a[k]) = Null
                /\ helpersGetSpanLength(pattern.a[k]) = Null

\* inferColumnCount leaves the end = -1 spans out
OpenEndedLeftOutByInferColumnCount ==
    (pc = "grid" /\ HasResolvableSpan(pattern)) =>
        inferredColumns = inferColumnCount(parseMultiRowPattern(WithoutOpenEnded(pattern)))

\* implicitColumns of a horizontal pattern object leaves the end = -1 spans out
OpenEndedLeftOutByImplicitColumns ==
    (/\ pc = "patternObject"
     /\ patternObject.patternDirection = "horizontal"
     /\ HasResolvableSpan(pattern)) =>
        patternObject.implicitColumns = implicitColumnsOf(WithoutOpenEnded(pattern), "horizontal")

\* C25: an explicit span that ends at -1 has length null and is left out of the
\* column-count arithmetic: a row with at least one resolvable span infers the
\* column count of the row without its end = -1 spans.
C25_OpenEndedSpansAreLeftOut ==
    /\ OpenEndedLengthIsNull
    /\ OpenEndedLeftOutByInferColumnCount
    /\ OpenEndedLeftOutByImplicitColumns

(***************************************************************************)
(* The single-row implementation against the multi-row one, checked under   *)
(* SpecPattern.                                                             *)
(***************************************************************************)

\* the span getItemSpanValue returned is the col of getItemSpans on the parsed pattern
SameItemSpans ==
    (pc = "itemSpanValue" /\ patternObject.patternDirection = "horizontal") =>
        itemSpanValue =
            getItemSpans(calledIndex, inferColumnCount(parseMultiRowPattern(pattern)),
                         parseMultiRowPattern(pattern), mirror).col

\* with mirroring off, where the parity of the mirrored cycles plays no part
SameItemSpansUnmirrored == mirror = MirrorOff => SameItemSpans

\* implicitColumns is the inferred column count of the parsed pattern
SameColumnCount ==
    (HasPatternObject /\ patternObject.patternDirection = "horizontal") =>
        patternObject.implicitColumns = inferColumnCount(parseMultiRowPattern(pattern))

\* C26: for every flat pattern, mirror policy and index, the column span of
\* getPatternObject(...).getItemSpanValue(index) is the col of getItemSpans(index)
\* on the parsed one-row pattern, and implicitColumns is inferColumnCount of it.
C26_MultiRowSubsumesSingleRow == SameItemSpans /\ SameColumnCount

(***************************************************************************)
(* The output of orderItemsForMasonryColumns as a rearrangement of its      *)
(* input, checked under SpecMasonry.                                        *)
(***************************************************************************)

\* the positions (1-based) of the returned array that hold the item
PositionsOf(item) == {k \in 1..Len(reordered) : reordered[k] = item}

\* C27: for every item list and column count the returned array is a
\* permutation of the input: it has the input's length, no position is left
\* empty, and every input item is at exactly one position.
C27_OutputIsPermutation ==
    pc = "ordered" =>
        /\ Len(reordered) = Len(items)
        /\ \A k \in 1..Len(reordered) : reordered[k] # Hole
        /\ \A k \in 1..Len(items) : Cardinality(PositionsOf(items[k])) = 1

\* the same for the lists whose length is a multiple of the column count
PermutationOfFullRows ==
    (pc = "ordered" /\ Len(items) % columnCount = 0) =>
        /\ Len(reordered) = Len(items)
        /\ \A k \in 1..Len(reordered) : reordered[k] # Hole
        /\ \A k \in 1..Len(items) : Cardinality(PositionsOf(items[k])) = 1

(***************************************************************************)
(* Filling a pruned map, checked under SpecBreakpoints.                     *)
(***************************************************************************)

HasNoInherit(opts) == \A bp \in BreakpointNames : opts[bp] # Inherit

\* what a breakpoint of the original map resolves to: the value of the largest
\* breakpoint not above it that has one, or the fallback
ResolvedAt(opts, bp, fb) ==
    LET S == SmallerOrEqual(opts, indexOf(bp), HasValue)
    IN  IF S = {} THEN fb ELSE opts[breakpoints[Largest(S) + 1]]

\* C28: pruning does not change what a tier resolves to: for a map without
\* "inherit", filling the pruned map gives what filling the map itself gives,
\* for every fallback without span semantics and for the fallback 1 with them.
C28_PruneKeepsResolvedValues ==
    (/\ pc = "prunedFilled"
     /\ HasNoInherit(options)
     /\ isSpanValue => fallback = Num(1)) =>
        /\ \A bp \in BreakpointNames : filled[bp] = ResolvedAt(options, bp, fallback)
        /\ filled = fillMissingBreakpoints(options, fallback)

\* C28 witness: pruning dropped tablet and desktop, which repeat the value
\* before them, and filling the pruned map with a fallback that is in no tier gave
\* every tier its value back.
C28_Witness ==
    /\ pc = "prunedFilled"
    /\ isSpanValue = FALSE
    /\ fallback = Num(MaxValue + 1)
    /\ options = [bp \in BreakpointNames |->
                    IF bp \in {"mobile", "tablet"} THEN Num(2)
                    ELSE IF bp \in {"laptop", "desktop"} THEN Num(1)
                    ELSE Undefined]
    /\ pruned["tablet"] = Undefined
    /\ pruned["desktop"] = Undefined
    /\ filled["tablet"] = Num(2)
    /\ filled["desktopWide"] = Num(1)

(***************************************************************************)
(* The pattern after item spans have been resolved, checked under           *)
(* SpecPattern.                                                             *)
(***************************************************************************)

IsNumberColonOne(token) ==
    /\ IsColRow(token)
    /\ RowPartOf(token) = Str(<<"1">>)
    /\ ColonOf(token) > 1
    /\ \A k \in 1..(ColonOf(token) - 1) : IsDigit(token.s[k])
    /\ DecimalValue(SubSeq(token.s, 1, ColonOf(token) - 1)) >= 1

IsFlat(p) == p.t = "array" /\ \A k \in 1..Len(p.a) : p.a[k].t # "array"

HasNumberColonOne(p) == IsFlat(p) /\ \E k \in 1..Len(p.a) : IsNumberColonOne(p.a[k])

\* the pattern with every "N:1" replaced by the number N
WithBareNumbers(p) ==
    Arr([k \in 1..Len(p.a) |->
            IF IsNumberColonOne(p.a[k])
            THEN Num(DecimalValue(SubSeq(p.a[k].s, 1, ColonOf(p.a[k]) - 1)))
            ELSE p.a[k]])

\* the spans of the called item under the pattern with bare numbers
SpansWithBareNumbers ==
    getItemSpans(calledIndex, inferColumnCount(parseMultiRowPattern(WithBareNumbers(pattern))),
                 parseMultiRowPattern(WithBareNumbers(pattern)), mirror)

\* the span values emitted for a span given at mobile, the redundant 1 dropped
EmittedAtMobile(span) ==
    getSpanValues([bp \in {"mobile"} |-> span])

\* parseSpan("N:1") is parseSpan(N): the parsed patterns are equal
ParsedAsBareNumbers ==
    (pc \in {"grid", "itemSpans"} /\ HasNumberColonOne(pattern)) =>
        parsedPattern = parseMultiRowPattern(WithBareNumbers(pattern))

\* the inferred column count is that of the pattern with bare numbers
SameColumnsAsBareNumbers ==
    (pc \in {"grid", "itemSpans"} /\ HasNumberColonOne(pattern)) =>
        inferredColumns = inferColumnCount(parseMultiRowPattern(WithBareNumbers(pattern)))

\* the pruned spans emitted for an item are those of the pattern with bare numbers
SameEmittedAsBareNumbers ==
    (pc = "itemSpans" /\ HasNumberColonOne(pattern)) =>
        /\ EmittedAtMobile(itemSpans.col) = EmittedAtMobile(SpansWithBareNumbers.col)
        /\ EmittedAtMobile(itemSpans.row) = EmittedAtMobile(SpansWithBareNumbers.row)

\* C30: "N:1" denotes the span of the bare number N: parseSpan("N:1") is
\* parseSpan(N), col N and row 1 as numbers, so replacing N by "N:1" in a pattern
\* changes neither the inferred column count nor the pruned spans emitted for
\* any item.
C30_ColRowOneIsBareNumber ==
    ParsedAsBareNumbers /\ SameColumnsAsBareNumbers /\ SameEmittedAsBareNumbers


==============================================================================
